---- MODULE Spec2Model ----
(***************************************************************************)
(* Binary and counting semaphores of semaphore.c / semaphore.h, and the    *)
(* worker threads of the demonstration programs that use them.             *)
(*                                                                         *)
(* The semaphores are plain (non-atomic, non-volatile) words that several  *)
(* threads read and write.  Every access of a shared word is one step of   *)
(* the calling thread: a spin test is one read per iteration, and each of  *)
(* |=, &=, ++ and -- is a read of the word followed by a write of it.  A   *)
(* build that reuses the value of the spin test for the following update   *)
(* behaves as the runs in which the test and the read are adjacent.        *)
(***************************************************************************)
EXTENDS Integers, FiniteSets, Sequences

VARIABLES
    binary_semaphores,  \* semaphore.c:24, the uint32_t as the set of its 1 bits
    sems,               \* handle -> struct counting_semaphore (semaphore.c:16-19)
    num_prints,         \* the demos' shared print counter (uint16_t)
    pc,                 \* thread -> the position it executes next
    ra,                 \* thread -> the position its current call returns to
    sem_id,             \* thread -> argument of binary_semaphore_take/release
    self,               \* thread -> argument of counting_semaphore_take/release
    reg,                \* thread -> the word it has read and not yet written back
    ret,                \* thread -> result of its last binary_semaphore_* call
    num_prints_copy,    \* thread -> run_thread's local num_prints_copy
    observed,           \* thread -> the last counting_semaphore_num_reserved it read
    increments,         \* history: how many ++num_prints have completed
    takes,              \* history: how many take calls the stress harness made
    calls,              \* history: how many calls the free harness / main made
    ptrs,               \* pointer variable -> address it holds, or NULL
    new_num_resources,  \* thread -> argument of counting_semaphore_new
    result,             \* thread -> pointer counting_semaphore_new returned
    mutex,              \* the mutex of the mutex demos: its owner, or Unlocked
    printed             \* history: the values of num_prints printed so far

vars == <<binary_semaphores, sems, num_prints, pc, ra, sem_id, self, reg, ret,
          num_prints_copy, observed, increments, takes, calls, ptrs,
          new_num_resources, result, mutex, printed>>

\* The state of the lifecycle functions and of the mutex demos.
rest == <<calls, ptrs, new_num_resources, result, mutex, printed>>

\* A null pointer.
NULL == 0
\* The mutex when no thread owns it.
Unlocked == 0

\* No allocation call has been made and no mutex demo runs.
RestInit ==
    /\ calls = 0
    /\ ptrs = <<>>
    /\ new_num_resources = <<>>
    /\ result = <<>>
    /\ mutex = Unlocked
    /\ printed = <<>>

----------------------------------------------------------------------------
(* Bounds of the model *)

\* Threads of the stress harness on one semaphore.
NumThreads == 2
\* Largest capacity a stress run creates its counting semaphore with.
MaxCapacity == 2
\* The demo workers start a new iteration while fewer than this many
\* increments of num_prints have completed.
MaxPrints == 3
\* The counting stress harness makes at most this many take calls in all.
MaxTakes == 5

(* Program constants *)

BINARY_SEMAPHORE_LIMIT == 32
BINARY_SEMAPHORE_ID_MIN == 0
BINARY_SEMAPHORE_ID_MAX == BINARY_SEMAPHORE_LIMIT - 1
BINARY_SEM_ID_CONSOLE == 0
BINARY_SEM_ID_SHARED_MEM == 1
\* main creates two worker threads, t1 and t2.
NumWorkers == 2
\* counting_semaphore_new(1) in main, counting_semaphore<1> in the C++ demo.
DemoCapacity == 1
\* uint16_t holds 0 .. 2^16 - 1.
TwoTo16 == 65536

Workers == 1..NumWorkers
StressThreads == 1..NumThreads
\* capacity + k threads, k >= 1, for every capacity the harness creates.
CountingThreads == 1..(MaxCapacity + 1)
\* Identifiers the stress harness passes: the valid ones at both ends of the
\* table and the first invalid one.
SemIds == {BINARY_SEMAPHORE_ID_MIN, BINARY_SEMAPHORE_ID_MAX, BINARY_SEMAPHORE_LIMIT}

----------------------------------------------------------------------------
(* Arithmetic of the C types *)

\* A value stored into a uint16_t.
Uint16(x) == x % TwoTo16

\* 1ULL << sem_id, for sem_id <= 31, as the set of its 1 bits.
Mask(id) == {id}

\* word & mask, as a truth value.
BitAnd(word, id) == word \cap Mask(id) # {}

\* word | mask.
BitOr(word, id) == word \cup Mask(id)

\* A release that leaves the word as it is.
BitClearAbsent(word, id) == word

\* word & ~mask, truncated to the 32 bits of the word.
BitClear(word, id) == word \ Mask(id)

----------------------------------------------------------------------------
(* Accessors of the counting semaphore *)

counting_semaphore_num_reserved(h) == sems[h].num_reserved_resources

counting_semaphore_num_available(h) ==
    Uint16(sems[h].num_total_resources - sems[h].num_reserved_resources)

\* A counting_semaphore_new that leaves num_reserved_resources as malloc
\* delivered it.
counting_semaphore_new_uninitialised(num_resources) ==
    [num_reserved_resources |-> TwoTo16 - 1, num_total_resources |-> num_resources]

\* The struct counting_semaphore_new(num_resources) initialises.
counting_semaphore_new(num_resources) ==
    [num_reserved_resources |-> 0, num_total_resources |-> num_resources]

----------------------------------------------------------------------------
(* binary_semaphore_take, semaphore.c:34-39 *)

\* binary_semaphore_take without the range check of semaphore.c:35.
binary_semaphore_take_check_absent(t) ==
    /\ pc[t] = "bt35"
    /\ pc' = [pc EXCEPT ![t] = "bt36"]
    /\ UNCHANGED <<binary_semaphores, sems, num_prints, ra, sem_id, self, reg,
                   ret, num_prints_copy, observed, increments, takes, rest>>

\* Line 35: an invalid identifier returns false at once.
binary_semaphore_take_check(t) ==
    /\ pc[t] = "bt35"
    /\ IF sem_id[t] > BINARY_SEMAPHORE_ID_MAX
         THEN /\ ret' = [ret EXCEPT ![t] = FALSE]
              /\ pc' = [pc EXCEPT ![t] = ra[t]]
         ELSE /\ pc' = [pc EXCEPT ![t] = "bt36"]
              /\ UNCHANGED ret
    /\ UNCHANGED <<binary_semaphores, sems, num_prints, ra, sem_id, self, reg,
                   num_prints_copy, observed, increments, takes, rest>>

\* Line 36: one iteration of the spin loop, one read of the word.
binary_semaphore_take_wait(t) ==
    /\ pc[t] = "bt36"
    /\ pc' = [pc EXCEPT ![t] =
                IF BitAnd(binary_semaphores, sem_id[t]) THEN "bt36" ELSE "bt37r"]
    /\ UNCHANGED <<binary_semaphores, sems, num_prints, ra, sem_id, self, reg, ret,
                   num_prints_copy, observed, increments, takes, rest>>

\* Line 37, the read of binary_semaphores |= mask.
binary_semaphore_take_load(t) ==
    /\ pc[t] = "bt37r"
    /\ reg' = [reg EXCEPT ![t] = binary_semaphores]
    /\ pc' = [pc EXCEPT ![t] = "bt37w"]
    /\ UNCHANGED <<binary_semaphores, sems, num_prints, ra, sem_id, self, ret,
                   num_prints_copy, observed, increments, takes, rest>>

\* Line 37, the write of binary_semaphores |= mask; line 38 returns true.
binary_semaphore_take_store(t) ==
    /\ pc[t] = "bt37w"
    /\ binary_semaphores' = BitOr(reg[t], sem_id[t])
    /\ reg' = [reg EXCEPT ![t] = {}]
    /\ ret' = [ret EXCEPT ![t] = TRUE]
    /\ pc' = [pc EXCEPT ![t] = ra[t]]
    /\ UNCHANGED <<sems, num_prints, ra, sem_id, self, num_prints_copy, observed,
                   increments, takes, rest>>

(* binary_semaphore_release, semaphore.c:47-51 *)

\* Line 48.
binary_semaphore_release_check(t) ==
    /\ pc[t] = "br48"
    /\ IF sem_id[t] > BINARY_SEMAPHORE_ID_MAX
         THEN /\ ret' = [ret EXCEPT ![t] = FALSE]
              /\ pc' = [pc EXCEPT ![t] = ra[t]]
         ELSE /\ pc' = [pc EXCEPT ![t] = "br49r"]
              /\ UNCHANGED ret
    /\ UNCHANGED <<binary_semaphores, sems, num_prints, ra, sem_id, self, reg,
                   num_prints_copy, observed, increments, takes, rest>>

\* Line 49, the read of binary_semaphores &= ~mask.
binary_semaphore_release_load(t) ==
    /\ pc[t] = "br49r"
    /\ reg' = [reg EXCEPT ![t] = binary_semaphores]
    /\ pc' = [pc EXCEPT ![t] = "br49w"]
    /\ UNCHANGED <<binary_semaphores, sems, num_prints, ra, sem_id, self, ret,
                   num_prints_copy, observed, increments, takes, rest>>

\* Line 49, the write of binary_semaphores &= ~mask; line 50 returns true.
binary_semaphore_release_store(t) ==
    /\ pc[t] = "br49w"
    /\ binary_semaphores' = BitClear(reg[t], sem_id[t])
    /\ reg' = [reg EXCEPT ![t] = {}]
    /\ ret' = [ret EXCEPT ![t] = TRUE]
    /\ pc' = [pc EXCEPT ![t] = ra[t]]
    /\ UNCHANGED <<sems, num_prints, ra, sem_id, self, num_prints_copy, observed,
                   increments, takes, rest>>

----------------------------------------------------------------------------
(* counting_semaphore_take, semaphore.c:104-107 (counting_semaphore<N>::take, *)
(* semaphore.h:169-172, is the same code on the member)                       *)

\* The test of counting_semaphore_take with > in place of >=.
counting_semaphore_take_wait_late(t) ==
    /\ pc[t] = "ct105"
    /\ pc' = [pc EXCEPT ![t] =
                IF sems[self[t]].num_reserved_resources
                     > sems[self[t]].num_total_resources
                  THEN "ct105" ELSE "ct106r"]
    /\ UNCHANGED <<binary_semaphores, sems, num_prints, ra, sem_id, self, reg, ret,
                   num_prints_copy, observed, increments, takes, rest>>

\* Line 105: one iteration of the spin loop, one read of the counter.
counting_semaphore_take_wait(t) ==
    /\ pc[t] = "ct105"
    /\ pc' = [pc EXCEPT ![t] =
                IF sems[self[t]].num_reserved_resources
                       >= sems[self[t]].num_total_resources
                  THEN "ct105" ELSE "ct106r"]
    /\ UNCHANGED <<binary_semaphores, sems, num_prints, ra, sem_id, self, reg, ret,
                   num_prints_copy, observed, increments, takes, rest>>

\* Line 106, the read of num_reserved_resources++.
counting_semaphore_take_load(t) ==
    /\ pc[t] = "ct106r"
    /\ reg' = [reg EXCEPT ![t] = sems[self[t]].num_reserved_resources]
    /\ pc' = [pc EXCEPT ![t] = "ct106w"]
    /\ UNCHANGED <<binary_semaphores, sems, num_prints, ra, sem_id, self, ret,
                   num_prints_copy, observed, increments, takes, rest>>

\* Line 106, the write of num_reserved_resources++; the function returns.
counting_semaphore_take_store(t) ==
    /\ pc[t] = "ct106w"
    /\ sems' = [sems EXCEPT ![self[t]].num_reserved_resources = Uint16(reg[t] + 1)]
    /\ reg' = [reg EXCEPT ![t] = 0]
    /\ pc' = [pc EXCEPT ![t] = ra[t]]
    /\ UNCHANGED <<binary_semaphores, num_prints, ra, sem_id, self, ret,
                   num_prints_copy, observed, increments, takes, rest>>

(* counting_semaphore_release, semaphore.c:113-117 (counting_semaphore<N>::  *)
(* release, semaphore.h:177-181)                                             *)

\* A counting_semaphore_release that waits until a resource is reserved.
counting_semaphore_release_test_waiting(t) ==
    /\ pc[t] = "cr114"
    /\ pc' = [pc EXCEPT ![t] =
                IF sems[self[t]].num_reserved_resources > 0 THEN "cr115r" ELSE "cr114"]
    /\ UNCHANGED <<binary_semaphores, sems, num_prints, ra, sem_id, self, reg, ret,
                   num_prints_copy, observed, increments, takes, rest>>

\* counting_semaphore_release without the test of semaphore.c:114.
counting_semaphore_release_test_absent(t) ==
    /\ pc[t] = "cr114"
    /\ pc' = [pc EXCEPT ![t] = "cr115r"]
    /\ UNCHANGED <<binary_semaphores, sems, num_prints, ra, sem_id, self, reg,
                   ret, num_prints_copy, observed, increments, takes, rest>>

\* Line 114: the test, one read of the counter; nothing reserved returns.
counting_semaphore_release_test(t) ==
    /\ pc[t] = "cr114"
    /\ pc' = [pc EXCEPT ![t] =
                IF sems[self[t]].num_reserved_resources > 0 THEN "cr115r" ELSE ra[t]]
    /\ UNCHANGED <<binary_semaphores, sems, num_prints, ra, sem_id, self, reg, ret,
                   num_prints_copy, observed, increments, takes, rest>>

\* Line 115, the read of num_reserved_resources--.
counting_semaphore_release_load(t) ==
    /\ pc[t] = "cr115r"
    /\ reg' = [reg EXCEPT ![t] = sems[self[t]].num_reserved_resources]
    /\ pc' = [pc EXCEPT ![t] = "cr115w"]
    /\ UNCHANGED <<binary_semaphores, sems, num_prints, ra, sem_id, self, ret,
                   num_prints_copy, observed, increments, takes, rest>>

\* Line 115, the write of num_reserved_resources--; the function returns.
counting_semaphore_release_store(t) ==
    /\ pc[t] = "cr115w"
    /\ sems' = [sems EXCEPT ![self[t]].num_reserved_resources = Uint16(reg[t] - 1)]
    /\ reg' = [reg EXCEPT ![t] = 0]
    /\ pc' = [pc EXCEPT ![t] = ra[t]]
    /\ UNCHANGED <<binary_semaphores, num_prints, ra, sem_id, self, ret,
                   num_prints_copy, observed, increments, takes, rest>>

----------------------------------------------------------------------------
(* Stress harness on the binary table: every thread loops                  *)
(* take(id); <use the resource>; release(id) with an identifier of its     *)
(* choice, as run_thread does with its two identifiers.                    *)

\* The call binary_semaphore_take(id).
stress_binary_take(t) ==
    /\ pc[t] = "start"
    /\ \E id \in SemIds : sem_id' = [sem_id EXCEPT ![t] = id]
    /\ ra' = [ra EXCEPT ![t] = "critical"]
    /\ pc' = [pc EXCEPT ![t] = "bt35"]
    /\ UNCHANGED <<binary_semaphores, sems, num_prints, self, reg, ret,
                   num_prints_copy, observed, increments, takes, rest>>

\* After a take that returned true, the call binary_semaphore_release(id).
stress_binary_release(t) ==
    /\ pc[t] = "critical"
    /\ IF ret[t]
         THEN /\ ra' = [ra EXCEPT ![t] = "start"]
              /\ pc' = [pc EXCEPT ![t] = "br48"]
         ELSE /\ pc' = [pc EXCEPT ![t] = "start"]
              /\ UNCHANGED ra
    /\ UNCHANGED <<binary_semaphores, sems, num_prints, sem_id, self, reg, ret,
                   num_prints_copy, observed, increments, takes, rest>>

BinaryStep(t) ==
    \/ stress_binary_take(t)
    \/ stress_binary_release(t)
    \/ binary_semaphore_take_check(t)
    \/ binary_semaphore_take_wait(t)
    \/ binary_semaphore_take_load(t)
    \/ binary_semaphore_take_store(t)
    \/ binary_semaphore_release_check(t)
    \/ binary_semaphore_release_load(t)
    \/ binary_semaphore_release_store(t)

\* binary_semaphores is zero-initialised (semaphore.c:24); no thread has
\* called anything yet.
BinaryInit ==
    /\ binary_semaphores = {}
    /\ sems = <<>>
    /\ num_prints = 0
    /\ pc = [t \in StressThreads |-> "start"]
    /\ ra = [t \in StressThreads |-> "start"]
    /\ sem_id = [t \in StressThreads |-> BINARY_SEMAPHORE_ID_MIN]
    /\ self = [t \in StressThreads |-> "none"]
    /\ reg = [t \in StressThreads |-> {}]
    /\ ret = [t \in StressThreads |-> FALSE]
    /\ num_prints_copy = [t \in StressThreads |-> 0]
    /\ observed = [t \in StressThreads |-> 0]
    /\ increments = 0
    /\ takes = 0
    /\ RestInit

BinaryNext == \E t \in StressThreads : BinaryStep(t)

BinarySpec == BinaryInit /\ [][BinaryNext]_vars

\* Thread t is between a take(id) that returned true and its release(id).
BinaryHolder(t, id) == pc[t] = "critical" /\ ret[t] /\ sem_id[t] = id

\* Thread t has called release(id) and the call has not returned.
BinaryReleasing(t, id) == pc[t] \in {"br48", "br49r", "br49w"} /\ sem_id[t] = id

ValidIds == BINARY_SEMAPHORE_ID_MIN .. BINARY_SEMAPHORE_ID_MAX

\* C1: binary mutual exclusion. For every id in 0..31, at most one thread is
\* between a binary_semaphore_take(id) that returned true and its
\* binary_semaphore_release(id).
C1_BinaryMutualExclusion ==
    \A id \in ValidIds :
        Cardinality({t \in DOMAIN pc : BinaryHolder(t, id)}) <= 1

\* C6: bit-equals-held. For every id in 0..31, bit id of binary_semaphores is 1
\* if and only if some thread has returned from binary_semaphore_take(id) and
\* its release of it has not yet completed.
C6_BitEqualsHeld ==
    \A id \in ValidIds :
        (id \in binary_semaphores)
            <=> (\E t \in DOMAIN pc : BinaryHolder(t, id) \/ BinaryReleasing(t, id))

----------------------------------------------------------------------------
(* The binary-semaphore demo, main_binary_sem.c: two workers run run_thread. *)
(* delay_ms only lets time pass and is no step of its own.                    *)

\* Line 66-67: a new iteration, binary_semaphore_take(BINARY_SEM_ID_SHARED_MEM).
binary_run_thread_take_shared_mem(t) ==
    /\ pc[t] = "bd66"
    /\ increments < MaxPrints
    /\ sem_id' = [sem_id EXCEPT ![t] = BINARY_SEM_ID_SHARED_MEM]
    /\ ra' = [ra EXCEPT ![t] = "bd68r"]
    /\ pc' = [pc EXCEPT ![t] = "bt35"]
    /\ UNCHANGED <<binary_semaphores, sems, num_prints, self, reg, ret,
                   num_prints_copy, observed, increments, takes, rest>>

\* Line 68, the read of ++num_prints.
binary_run_thread_load_num_prints(t) ==
    /\ pc[t] = "bd68r"
    /\ num_prints_copy' = [num_prints_copy EXCEPT ![t] = num_prints]
    /\ pc' = [pc EXCEPT ![t] = "bd68w"]
    /\ UNCHANGED <<binary_semaphores, sems, num_prints, ra, sem_id, self, reg, ret,
                   observed, increments, takes, rest>>

\* Line 68, the write of ++num_prints and of num_prints_copy.
binary_run_thread_store_num_prints(t) ==
    /\ pc[t] = "bd68w"
    /\ num_prints' = Uint16(num_prints_copy[t] + 1)
    /\ num_prints_copy' = [num_prints_copy EXCEPT ![t] = Uint16(num_prints_copy[t] + 1)]
    /\ increments' = increments + 1
    /\ pc' = [pc EXCEPT ![t] = "bd69"]
    /\ UNCHANGED <<binary_semaphores, sems, ra, sem_id, self, reg, ret, observed, takes, rest>>

\* run_thread without the release of the shared-memory semaphore of line 69.
binary_run_thread_release_shared_mem_absent(t) ==
    /\ pc[t] = "bd69"
    /\ pc' = [pc EXCEPT ![t] = "bd71"]
    /\ UNCHANGED <<binary_semaphores, sems, num_prints, ra, sem_id, self, reg,
                   ret, num_prints_copy, observed, increments, takes, rest>>

\* Line 69: binary_semaphore_release(BINARY_SEM_ID_SHARED_MEM).
binary_run_thread_release_shared_mem(t) ==
    /\ pc[t] = "bd69"
    /\ sem_id' = [sem_id EXCEPT ![t] = BINARY_SEM_ID_SHARED_MEM]
    /\ ra' = [ra EXCEPT ![t] = "bd71"]
    /\ pc' = [pc EXCEPT ![t] = "br48"]
    /\ UNCHANGED <<binary_semaphores, sems, num_prints, self, reg, ret,
                   num_prints_copy, observed, increments, takes, rest>>

\* Line 71: binary_semaphore_take(BINARY_SEM_ID_CONSOLE).
binary_run_thread_take_console(t) ==
    /\ pc[t] = "bd71"
    /\ sem_id' = [sem_id EXCEPT ![t] = BINARY_SEM_ID_CONSOLE]
    /\ ra' = [ra EXCEPT ![t] = "bd72"]
    /\ pc' = [pc EXCEPT ![t] = "bt35"]
    /\ UNCHANGED <<binary_semaphores, sems, num_prints, self, reg, ret,
                   num_prints_copy, observed, increments, takes, rest>>

\* Lines 72-76: the four printf calls and the 10 ms delay.
binary_run_thread_print(t) ==
    /\ pc[t] = "bd72"
    /\ pc' = [pc EXCEPT ![t] = "bd77"]
    /\ UNCHANGED <<binary_semaphores, sems, num_prints, ra, sem_id, self, reg, ret,
                   num_prints_copy, observed, increments, takes, rest>>

\* Lines 77-78: binary_semaphore_release(BINARY_SEM_ID_CONSOLE), back to line 66.
binary_run_thread_release_console(t) ==
    /\ pc[t] = "bd77"
    /\ sem_id' = [sem_id EXCEPT ![t] = BINARY_SEM_ID_CONSOLE]
    /\ ra' = [ra EXCEPT ![t] = "bd66"]
    /\ pc' = [pc EXCEPT ![t] = "br48"]
    /\ UNCHANGED <<binary_semaphores, sems, num_prints, self, reg, ret,
                   num_prints_copy, observed, increments, takes, rest>>

BinaryDemoStep(t) ==
    \/ binary_run_thread_take_shared_mem(t)
    \/ binary_run_thread_load_num_prints(t)
    \/ binary_run_thread_store_num_prints(t)
    \/ binary_run_thread_release_shared_mem(t)
    \/ binary_run_thread_take_console(t)
    \/ binary_run_thread_print(t)
    \/ binary_run_thread_release_console(t)
    \/ binary_semaphore_take_check(t)
    \/ binary_semaphore_take_wait(t)
    \/ binary_semaphore_take_load(t)
    \/ binary_semaphore_take_store(t)
    \/ binary_semaphore_release_check(t)
    \/ binary_semaphore_release_load(t)
    \/ binary_semaphore_release_store(t)

\* The state after main has created both workers (lines 91-94).
BinaryDemoInit ==
    /\ binary_semaphores = {}
    /\ sems = <<>>
    /\ num_prints = 0
    /\ pc = [t \in Workers |-> "bd66"]
    /\ ra = [t \in Workers |-> "bd66"]
    /\ sem_id = [t \in Workers |-> BINARY_SEM_ID_CONSOLE]
    /\ self = [t \in Workers |-> "none"]
    /\ reg = [t \in Workers |-> {}]
    /\ ret = [t \in Workers |-> FALSE]
    /\ num_prints_copy = [t \in Workers |-> 0]
    /\ observed = [t \in Workers |-> 0]
    /\ increments = 0
    /\ takes = 0
    /\ RestInit

BinaryDemoNext == \E t \in Workers : BinaryDemoStep(t)

\* Preemptive threads: a worker that can take a step that changes the state
\* is not suspended forever.
BinaryDemoSpec ==
    /\ BinaryDemoInit
    /\ [][BinaryDemoNext]_vars
    /\ \A t \in Workers : WF_vars(BinaryDemoStep(t))

\* Worker t is between its take and its release of the given identifier.
BinaryDemoHolder(t, id) ==
    IF id = BINARY_SEM_ID_SHARED_MEM THEN pc[t] \in {"bd68r", "bd68w", "bd69"}
    ELSE IF id = BINARY_SEM_ID_CONSOLE THEN pc[t] \in {"bd72", "bd77"}
    ELSE FALSE

\* Worker t is inside binary_semaphore_take.
InBinaryTake(t) == pc[t] \in {"bt35", "bt36", "bt37r", "bt37w"}

\* C5: binary-semaphore demo exclusivity. For the console (ID 0) and for the
\* shared counter (ID 1), at most one worker is between its
\* binary_semaphore_take(ID) and its binary_semaphore_release(ID).
C5_BinaryDemoExclusive ==
    \A id \in {BINARY_SEM_ID_CONSOLE, BINARY_SEM_ID_SHARED_MEM} :
        Cardinality({t \in Workers : BinaryDemoHolder(t, id)}) <= 1

\* C8: a blocked binary take is only temporary. Under weakly fair scheduling
\* of the two workers, the demo never reaches a state from which every
\* worker stays inside binary_semaphore_take forever (a bit left set with no
\* holder to clear it): again and again some worker is outside take.
C8_BinaryTakeReturns ==
    []<>(\E t \in Workers : ~InBinaryTake(t))

----------------------------------------------------------------------------
(* Stress harness on one counting semaphore: every thread loops             *)
(* take(h); <use the resource>; release(h), as run_thread of                *)
(* main_counting_sem.c does with sem_shared_mem.                            *)

\* The call counting_semaphore_take(h).
stress_counting_take(t) ==
    /\ pc[t] = "start"
    /\ takes < MaxTakes
    /\ takes' = takes + 1
    /\ self' = [self EXCEPT ![t] = "h"]
    /\ ra' = [ra EXCEPT ![t] = "critical"]
    /\ pc' = [pc EXCEPT ![t] = "ct105"]
    /\ UNCHANGED <<binary_semaphores, sems, num_prints, sem_id, reg, ret,
                   num_prints_copy, observed, increments, rest>>

\* The call counting_semaphore_release(h) that matches the take.
stress_counting_release(t) ==
    /\ pc[t] = "critical"
    /\ self' = [self EXCEPT ![t] = "h"]
    /\ ra' = [ra EXCEPT ![t] = "start"]
    /\ pc' = [pc EXCEPT ![t] = "cr114"]
    /\ UNCHANGED <<binary_semaphores, sems, num_prints, sem_id, reg, ret,
                   num_prints_copy, observed, increments, takes, rest>>

CountingStep(t) ==
    \/ stress_counting_take(t)
    \/ stress_counting_release(t)
    \/ counting_semaphore_take_wait(t)
    \/ counting_semaphore_take_load(t)
    \/ counting_semaphore_take_store(t)
    \/ counting_semaphore_release_test(t)
    \/ counting_semaphore_release_load(t)
    \/ counting_semaphore_release_store(t)

\* The state after h = counting_semaphore_new(capacity) succeeded, with more
\* threads than capacity about to use h.
CountingInit ==
    /\ binary_semaphores = {}
    /\ \E capacity \in 1..MaxCapacity :
           sems = [h \in {"h"} |-> counting_semaphore_new(capacity)]
    /\ num_prints = 0
    /\ pc = [t \in CountingThreads |-> "start"]
    /\ ra = [t \in CountingThreads |-> "start"]
    /\ sem_id = [t \in CountingThreads |-> BINARY_SEMAPHORE_ID_MIN]
    /\ self = [t \in CountingThreads |-> "h"]
    /\ reg = [t \in CountingThreads |-> 0]
    /\ ret = [t \in CountingThreads |-> FALSE]
    /\ num_prints_copy = [t \in CountingThreads |-> 0]
    /\ observed = [t \in CountingThreads |-> 0]
    /\ increments = 0
    /\ takes = 0
    /\ RestInit

CountingNext == \E t \in CountingThreads : CountingStep(t)

\* Preemptive threads: a thread that can take a step that changes the state
\* is not suspended forever.
CountingSpec ==
    /\ CountingInit
    /\ [][CountingNext]_vars
    /\ \A t \in CountingThreads : WF_vars(CountingStep(t))

\* Thread t has returned from take and has not yet called the matching release.
CountingHolder(t) == pc[t] = "critical"

\* C2: counting-semaphore holder bound. The number of threads that have
\* returned from counting_semaphore_take and not yet called the matching
\* release never exceeds the capacity.
C2_HolderBound ==
    Cardinality({t \in DOMAIN pc : CountingHolder(t)}) <= sems["h"].num_total_resources

\* C3: counter range. 0 <= num_reserved_resources <= num_total_resources in
\* every reachable state.
C3_CounterRange ==
    /\ 0 <= sems["h"].num_reserved_resources
    /\ sems["h"].num_reserved_resources <= sems["h"].num_total_resources

\* C7: a blocked counting take is only temporary. Under weakly fair
\* scheduling the system never reaches a state from which every thread
\* spins in counting_semaphore_take forever: again and again some thread is
\* not waiting in take.
C7_CountingTakeReturns ==
    []<>(\E t \in CountingThreads : pc[t] # "ct105")

\* C10: reserved/available round trip. At every observation point
\* counting_semaphore_num_reserved(h) + counting_semaphore_num_available(h)
\* (the latter a 16-bit unsigned value) equals the capacity given at creation.
C10_ReservedPlusAvailable ==
    counting_semaphore_num_reserved("h") + counting_semaphore_num_available("h")
        = sems["h"].num_total_resources

----------------------------------------------------------------------------
(* The counting-semaphore demo, main_counting_sem.c: two workers run         *)
(* run_thread on sem_shared_mem and sem_console, both created with one       *)
(* resource.  RunThread of main_counting_sem.cpp is the same loop on two     *)
(* counting_semaphore<1> objects.                                            *)

\* Lines 61-62: a new iteration, counting_semaphore_take(sem_shared_mem).
counting_run_thread_take_shared_mem(t) ==
    /\ pc[t] = "cd61"
    /\ increments < MaxPrints
    /\ self' = [self EXCEPT ![t] = "sem_shared_mem"]
    /\ ra' = [ra EXCEPT ![t] = "cd63r"]
    /\ pc' = [pc EXCEPT ![t] = "ct105"]
    /\ UNCHANGED <<binary_semaphores, sems, num_prints, sem_id, reg, ret,
                   num_prints_copy, observed, increments, takes, rest>>

\* Line 63, the read of ++num_prints.
counting_run_thread_load_num_prints(t) ==
    /\ pc[t] = "cd63r"
    /\ num_prints_copy' = [num_prints_copy EXCEPT ![t] = num_prints]
    /\ pc' = [pc EXCEPT ![t] = "cd63w"]
    /\ UNCHANGED <<binary_semaphores, sems, num_prints, ra, sem_id, self, reg, ret,
                   observed, increments, takes, rest>>

\* Line 63, the write of ++num_prints and of num_prints_copy.
counting_run_thread_store_num_prints(t) ==
    /\ pc[t] = "cd63w"
    /\ num_prints' = Uint16(num_prints_copy[t] + 1)
    /\ num_prints_copy' = [num_prints_copy EXCEPT ![t] = Uint16(num_prints_copy[t] + 1)]
    /\ increments' = increments + 1
    /\ pc' = [pc EXCEPT ![t] = "cd64"]
    /\ UNCHANGED <<binary_semaphores, sems, ra, sem_id, self, reg, ret, observed, takes, rest>>

\* Line 64: counting_semaphore_release(sem_shared_mem).
counting_run_thread_release_shared_mem(t) ==
    /\ pc[t] = "cd64"
    /\ self' = [self EXCEPT ![t] = "sem_shared_mem"]
    /\ ra' = [ra EXCEPT ![t] = "cd66"]
    /\ pc' = [pc EXCEPT ![t] = "cr114"]
    /\ UNCHANGED <<binary_semaphores, sems, num_prints, sem_id, reg, ret,
                   num_prints_copy, observed, increments, takes, rest>>

\* Line 66: counting_semaphore_take(sem_console).
counting_run_thread_take_console(t) ==
    /\ pc[t] = "cd66"
    /\ self' = [self EXCEPT ![t] = "sem_console"]
    /\ ra' = [ra EXCEPT ![t] = "cd67"]
    /\ pc' = [pc EXCEPT ![t] = "ct105"]
    /\ UNCHANGED <<binary_semaphores, sems, num_prints, sem_id, reg, ret,
                   num_prints_copy, observed, increments, takes, rest>>

\* Lines 67-71: the four printf calls and the 10 ms delay.
counting_run_thread_print(t) ==
    /\ pc[t] = "cd67"
    /\ pc' = [pc EXCEPT ![t] = "cd72"]
    /\ UNCHANGED <<binary_semaphores, sems, num_prints, ra, sem_id, self, reg, ret,
                   num_prints_copy, observed, increments, takes, rest>>

\* Lines 72-73: counting_semaphore_release(sem_console), back to line 61.
counting_run_thread_release_console(t) ==
    /\ pc[t] = "cd72"
    /\ self' = [self EXCEPT ![t] = "sem_console"]
    /\ ra' = [ra EXCEPT ![t] = "cd61"]
    /\ pc' = [pc EXCEPT ![t] = "cr114"]
    /\ UNCHANGED <<binary_semaphores, sems, num_prints, sem_id, reg, ret,
                   num_prints_copy, observed, increments, takes, rest>>

CountingDemoStep(t) ==
    \/ counting_run_thread_take_shared_mem(t)
    \/ counting_run_thread_load_num_prints(t)
    \/ counting_run_thread_store_num_prints(t)
    \/ counting_run_thread_release_shared_mem(t)
    \/ counting_run_thread_take_console(t)
    \/ counting_run_thread_print(t)
    \/ counting_run_thread_release_console(t)
    \/ counting_semaphore_take_wait(t)
    \/ counting_semaphore_take_load(t)
    \/ counting_semaphore_take_store(t)
    \/ counting_semaphore_release_test(t)
    \/ counting_semaphore_release_load(t)
    \/ counting_semaphore_release_store(t)

\* The state after main has created both semaphores and both workers
\* (lines 88-92), both allocations having succeeded.
CountingDemoInit ==
    /\ binary_semaphores = {}
    /\ sems = [h \in {"sem_console", "sem_shared_mem"} |->
                   counting_semaphore_new(DemoCapacity)]
    /\ num_prints = 0
    /\ pc = [t \in Workers |-> "cd61"]
    /\ ra = [t \in Workers |-> "cd61"]
    /\ sem_id = [t \in Workers |-> BINARY_SEMAPHORE_ID_MIN]
    /\ self = [t \in Workers |-> "sem_shared_mem"]
    /\ reg = [t \in Workers |-> 0]
    /\ ret = [t \in Workers |-> FALSE]
    /\ num_prints_copy = [t \in Workers |-> 0]
    /\ observed = [t \in Workers |-> 0]
    /\ increments = 0
    /\ takes = 0
    /\ RestInit

CountingDemoNext == \E t \in Workers : CountingDemoStep(t)

CountingDemoSpec == CountingDemoInit /\ [][CountingDemoNext]_vars

\* C4: no lost updates. With the workers' increments of num_prints guarded by
\* the capacity-1 semaphore sem_shared_mem, after N increments in total the
\* counter equals exactly N.
C4_NoLostUpdates == num_prints = increments

----------------------------------------------------------------------------
(* The end-to-end scenario on a capacity-1 counting semaphore h: threads A   *)
(* and B each call take, read num_reserved, call release and finish.         *)

\* The call counting_semaphore_take(h).
scenario_take(t) ==
    /\ pc[t] = "sc_take"
    /\ self' = [self EXCEPT ![t] = "h"]
    /\ ra' = [ra EXCEPT ![t] = "sc_read"]
    /\ pc' = [pc EXCEPT ![t] = "ct105"]
    /\ UNCHANGED <<binary_semaphores, sems, num_prints, sem_id, reg, ret,
                   num_prints_copy, observed, increments, takes, rest>>

\* The thread reads counting_semaphore_num_reserved(h) after its take.
scenario_read(t) ==
    /\ pc[t] = "sc_read"
    /\ observed' = [observed EXCEPT ![t] = counting_semaphore_num_reserved("h")]
    /\ pc' = [pc EXCEPT ![t] = "sc_release"]
    /\ UNCHANGED <<binary_semaphores, sems, num_prints, ra, sem_id, self, reg, ret,
                   num_prints_copy, increments, takes, rest>>

\* The call counting_semaphore_release(h); the thread then finishes.
scenario_release(t) ==
    /\ pc[t] = "sc_release"
    /\ self' = [self EXCEPT ![t] = "h"]
    /\ ra' = [ra EXCEPT ![t] = "sc_done"]
    /\ pc' = [pc EXCEPT ![t] = "cr114"]
    /\ UNCHANGED <<binary_semaphores, sems, num_prints, sem_id, reg, ret,
                   num_prints_copy, observed, increments, takes, rest>>

ScenarioStep(t) ==
    \/ scenario_take(t)
    \/ scenario_read(t)
    \/ scenario_release(t)
    \/ counting_semaphore_take_wait(t)
    \/ counting_semaphore_take_load(t)
    \/ counting_semaphore_take_store(t)
    \/ counting_semaphore_release_test(t)
    \/ counting_semaphore_release_load(t)
    \/ counting_semaphore_release_store(t)

\* The state after h = counting_semaphore_new(1) succeeded.
ScenarioInit ==
    /\ binary_semaphores = {}
    /\ sems = [h \in {"h"} |-> counting_semaphore_new(DemoCapacity)]
    /\ num_prints = 0
    /\ pc = [t \in Workers |-> "sc_take"]
    /\ ra = [t \in Workers |-> "sc_take"]
    /\ sem_id = [t \in Workers |-> BINARY_SEMAPHORE_ID_MIN]
    /\ self = [t \in Workers |-> "h"]
    /\ reg = [t \in Workers |-> 0]
    /\ ret = [t \in Workers |-> FALSE]
    /\ num_prints_copy = [t \in Workers |-> 0]
    /\ observed = [t \in Workers |-> 0]
    /\ increments = 0
    /\ takes = 0
    /\ RestInit

ScenarioNext == \E t \in Workers : ScenarioStep(t)

ScenarioSpec == ScenarioInit /\ [][ScenarioNext]_vars

\* Thread t has returned from its take and has not yet called release.
ScenarioHolder(t) == pc[t] \in {"sc_read", "sc_release"}

\* C9: end-to-end capacity-1 scenario. A thread whose take has returned reads
\* reserved == 1; the other thread's take does not return while the first
\* holds; and once both threads have released, reserved == 0.
C9_EndToEnd ==
    /\ \A t \in Workers : pc[t] = "sc_release" => observed[t] = 1
    /\ Cardinality({t \in Workers : ScenarioHolder(t)}) <= 1
    /\ (\A t \in Workers : pc[t] = "sc_done") => counting_semaphore_num_reserved("h") = 0

----
\* Free harness: threads that call the four semaphore functions in any order,
\* with any identifier, whether or not they hold what they release. The public
\* functions of semaphore.h put no restriction on their callers.

\* The largest value of the uint8_t parameter sem_id.
UINT8_MAX == 255

\* How many calls the threads of the free harness make altogether.
MaxCalls == 3

FreeIds == SemIds \cup {UINT8_MAX}

\* Where a thread of the free harness is between two calls: before its first
\* call, or just returned from the call the position names.
BetweenCalls ==
    {"idle", "after_binary_take", "after_binary_release",
     "after_counting_take", "after_counting_release"}

\* binary_semaphore_take(id) is called.
free_binary_take(t) ==
    /\ pc[t] \in BetweenCalls
    /\ calls < MaxCalls
    /\ \E id \in FreeIds : sem_id' = [sem_id EXCEPT ![t] = id]
    /\ ra' = [ra EXCEPT ![t] = "after_binary_take"]
    /\ pc' = [pc EXCEPT ![t] = "bt35"]
    /\ calls' = calls + 1
    /\ UNCHANGED <<binary_semaphores, sems, num_prints, self, reg, ret,
                   num_prints_copy, observed, increments, takes, ptrs,
                   new_num_resources, result, mutex, printed>>

\* binary_semaphore_release(id) is called.
free_binary_release(t) ==
    /\ pc[t] \in BetweenCalls
    /\ calls < MaxCalls
    /\ \E id \in FreeIds : sem_id' = [sem_id EXCEPT ![t] = id]
    /\ ra' = [ra EXCEPT ![t] = "after_binary_release"]
    /\ pc' = [pc EXCEPT ![t] = "br48"]
    /\ calls' = calls + 1
    /\ UNCHANGED <<binary_semaphores, sems, num_prints, self, reg, ret,
                   num_prints_copy, observed, increments, takes, ptrs,
                   new_num_resources, result, mutex, printed>>

\* counting_semaphore_take(h) is called.
free_counting_take(t) ==
    /\ pc[t] \in BetweenCalls
    /\ calls < MaxCalls
    /\ ra' = [ra EXCEPT ![t] = "after_counting_take"]
    /\ pc' = [pc EXCEPT ![t] = "ct105"]
    /\ calls' = calls + 1
    /\ UNCHANGED <<binary_semaphores, sems, num_prints, sem_id, self, reg, ret,
                   num_prints_copy, observed, increments, takes, ptrs,
                   new_num_resources, result, mutex, printed>>

\* counting_semaphore_release(h) is called.
free_counting_release(t) ==
    /\ pc[t] \in BetweenCalls
    /\ calls < MaxCalls
    /\ ra' = [ra EXCEPT ![t] = "after_counting_release"]
    /\ pc' = [pc EXCEPT ![t] = "cr114"]
    /\ calls' = calls + 1
    /\ UNCHANGED <<binary_semaphores, sems, num_prints, sem_id, self, reg, ret,
                   num_prints_copy, observed, increments, takes, ptrs,
                   new_num_resources, result, mutex, printed>>

\* The steps of binary_semaphore_release (semaphore.c:47-51).
binary_semaphore_release_step(t) ==
    \/ binary_semaphore_release_check(t)
    \/ binary_semaphore_release_load(t)
    \/ binary_semaphore_release_store(t)

\* The steps of counting_semaphore_release (semaphore.c:113-117).
counting_semaphore_release_step(t) ==
    \/ counting_semaphore_release_test(t)
    \/ counting_semaphore_release_load(t)
    \/ counting_semaphore_release_store(t)

FreeStep(t) ==
    \/ free_binary_take(t)
    \/ free_binary_release(t)
    \/ free_counting_take(t)
    \/ free_counting_release(t)
    \/ binary_semaphore_take_check(t)
    \/ binary_semaphore_take_wait(t)
    \/ binary_semaphore_take_load(t)
    \/ binary_semaphore_take_store(t)
    \/ binary_semaphore_release_step(t)
    \/ counting_semaphore_take_wait(t)
    \/ counting_semaphore_take_load(t)
    \/ counting_semaphore_take_store(t)
    \/ counting_semaphore_release_step(t)

\* The table is zero-initialised (semaphore.c:24) and h is a counting semaphore
\* that counting_semaphore_new(capacity) has just returned.
FreeInit ==
    /\ binary_semaphores = {}
    /\ \E capacity \in 1..MaxCapacity :
           sems = [h \in {"h"} |-> counting_semaphore_new(capacity)]
    /\ num_prints = 0
    /\ pc = [t \in StressThreads |-> "idle"]
    /\ ra = [t \in StressThreads |-> "idle"]
    /\ sem_id = [t \in StressThreads |-> BINARY_SEMAPHORE_ID_MIN]
    /\ self = [t \in StressThreads |-> "h"]
    /\ reg = [t \in StressThreads |-> 0]
    /\ ret = [t \in StressThreads |-> FALSE]
    /\ num_prints_copy = [t \in StressThreads |-> 0]
    /\ observed = [t \in StressThreads |-> 0]
    /\ increments = 0
    /\ takes = 0
    /\ RestInit

FreeNext == \E t \in StressThreads : FreeStep(t)

FreeSpec == FreeInit /\ [][FreeNext]_vars

\* Thread t is inside the part of a binary semaphore function that follows its
\* range check: the wait, or a read or write of the table.
PastRangeCheck(t) == pc[t] \in {"bt36", "bt37r", "bt37w", "br49r", "br49w"}

\* C11: binary_semaphore_take and binary_semaphore_release called with a
\* sem_id above 31 return false in the caller's first step, whatever the table
\* holds, without reaching the wait and without changing any of the 32 bits.
C11_InvalidIdRejected ==
    [][\A t \in StressThreads :
          /\ (sem_id'[t] > BINARY_SEMAPHORE_ID_MAX) => ~PastRangeCheck(t)'
          /\ (/\ pc[t] \in {"bt35", "br48"}
              /\ sem_id[t] > BINARY_SEMAPHORE_ID_MAX
              /\ pc'[t] # pc[t])
             => /\ pc'[t] = ra[t]
                /\ ret'[t] = FALSE
                /\ binary_semaphores' = binary_semaphores]_vars

\* A take with sem_id above 31 and a release with sem_id above 31 have both
\* returned false while the table has bits set.
C11_Witness ==
    \E t, u \in StressThreads :
        /\ pc[t] = "after_binary_take"
        /\ sem_id[t] > BINARY_SEMAPHORE_ID_MAX
        /\ ~ret[t]
        /\ pc[u] = "after_binary_release"
        /\ sem_id[u] > BINARY_SEMAPHORE_ID_MAX
        /\ ~ret[u]
        /\ binary_semaphores # {}

\* C12: whatever the interleaving of the counting_semaphore_release calls, the
\* counter of reserved resources never drops below 0, that is, the uint16_t
\* never wraps to 65535.
C12_NeverBelowZero == counting_semaphore_num_reserved("h") # TwoTo16 - 1

\* C13: counting_semaphore_release called while reserved == 0 returns in the
\* caller's first step and changes nothing: reserved stays 0, and so do the
\* capacity, the table of binary semaphores and num_prints. A repeated call
\* starts from the same state, so the same holds for it.
C13_OverReleaseIdempotent ==
    [][\A t \in StressThreads :
          (/\ pc[t] = "cr114"
           /\ counting_semaphore_num_reserved(self[t]) = 0
           /\ pc'[t] # pc[t])
          => /\ pc'[t] = ra[t]
             /\ sems' = sems
             /\ binary_semaphores' = binary_semaphores
             /\ num_prints' = num_prints]_vars

\* The only call made so far is a counting_semaphore_release on the fresh
\* semaphore, and it has returned with reserved still 0.
C13_Witness ==
    \E t \in StressThreads :
        /\ pc[t] = "after_counting_release"
        /\ calls = 1
        /\ counting_semaphore_num_reserved("h") = 0

\* Thread t proceeds from the wait of binary_semaphore_take to the write of
\* its bit.
LeavesWait(t) == <<binary_semaphore_take_wait(t)>>_vars

\* C14: binary_semaphore_release(id) with id in 0..31 asks nothing about who
\* took id: called by any thread it goes on to clear the bit, writes the word
\* with bit id clear and returns true; and whenever bit id is clear a thread
\* waiting in binary_semaphore_take(id) can leave the wait, whether or not the
\* thread that took id has released it.
C14_UncheckedRelease ==
    /\ [][\A t \in StressThreads :
             /\ (/\ pc[t] = "br48"
                 /\ sem_id[t] \in ValidIds
                 /\ pc'[t] # pc[t])
                => pc'[t] = "br49r"
             /\ (pc[t] = "br49r" /\ pc'[t] # pc[t]) => pc'[t] = "br49w"
             /\ (pc[t] = "br49w" /\ pc'[t] # pc[t])
                => /\ pc'[t] = ra[t]
                   /\ ret'[t] = TRUE
                   /\ ~BitAnd(binary_semaphores', sem_id[t])]_vars
    /\ [](\A t \in StressThreads :
             (pc[t] = "bt36" /\ ~BitAnd(binary_semaphores, sem_id[t]))
             => ENABLED LeavesWait(t))

\* Thread t took id 0 and has not released it; thread u, whose only call it
\* was, has released id 0 and got true, and bit 0 is clear.
C14_Witness ==
    \E t, u \in StressThreads :
        /\ calls = 2
        /\ pc[t] = "after_binary_take"
        /\ sem_id[t] = BINARY_SEMAPHORE_ID_MIN
        /\ ret[t]
        /\ pc[u] = "after_binary_release"
        /\ sem_id[u] = BINARY_SEMAPHORE_ID_MIN
        /\ ret[u]
        /\ ~BitAnd(binary_semaphores, BINARY_SEMAPHORE_ID_MIN)

\* Worker t of main_counting_sem.c is between a counting_semaphore_take(h)
\* that returned and its call of counting_semaphore_release(h).
CountingDemoHolder(t, h) ==
    \/ h = "sem_shared_mem" /\ pc[t] \in {"cd63r", "cd63w", "cd64"}
    \/ h = "sem_console" /\ pc[t] \in {"cd67", "cd72"}

\* C15: a counting semaphore of capacity 1 behaves as one binary semaphore
\* slot. Its counter is 0 or 1 in every state, so that it maps to the slot's
\* bit, and at most one thread holds it at a time.
C15_BehavesAsBinarySlot ==
    \A h \in DOMAIN sems :
        /\ counting_semaphore_num_reserved(h) \in {0, 1}
        /\ Cardinality({t \in Workers : CountingDemoHolder(t, h)}) <= 1

\* Thread t passes the test of counting_semaphore_take and goes on to the
\* increment.
TakeProceeds(t) == <<counting_semaphore_take_wait(t)>>_vars

\* Thread t takes the next step of the increment of counting_semaphore_take.
TakeIncrements(t) ==
    <<counting_semaphore_take_load(t) \/ counting_semaphore_take_store(t)>>_vars

\* C16: a counting_semaphore_take whose test finds reserved below the
\* capacity passes the test and completes without waiting; the test holds the
\* caller back exactly when all resources are reserved.
C16_WaitsOnlyWhenFull ==
    \A t \in StressThreads :
        /\ pc[t] = "ct105"
           => (ENABLED TakeProceeds(t)
               <=> counting_semaphore_num_reserved(self[t])
                     < sems[self[t]].num_total_resources)
        /\ pc[t] \in {"ct106r", "ct106w"} => ENABLED TakeIncrements(t)

\* A semaphore of capacity above 1 is full after as many takes as its
\* capacity, all of which returned, and one more take is waiting.
C16_Witness ==
    \E t, u \in StressThreads :
        /\ sems["h"].num_total_resources > 1
        /\ calls = sems["h"].num_total_resources + 1
        /\ counting_semaphore_num_reserved("h") = sems["h"].num_total_resources
        /\ pc[u] = "after_counting_take"
        /\ pc[t] = "ct105"

\* How many steps of binary_semaphore_release or counting_semaphore_release
\* are left at most at position p; 0 outside the two functions.
ReleaseStepsLeft(p) ==
    CASE p \in {"br48", "cr114"} -> 3
      [] p \in {"br49r", "cr115r"} -> 2
      [] p \in {"br49w", "cr115w"} -> 1
      [] OTHER -> 0

\* Thread t takes a step of the release function it is inside.
ReleaseAdvances(t) ==
    <<binary_semaphore_release_step(t) \/ counting_semaphore_release_step(t)>>_vars

\* C17: release never blocks. In every state a thread inside
\* binary_semaphore_release or counting_semaphore_release can take its next
\* step, whatever the other threads hold or do, and each of its steps brings
\* it nearer to the return: the call is over after at most three steps of the
\* caller.
C17_ReleaseNeverBlocks ==
    /\ [](\A t \in StressThreads :
             ReleaseStepsLeft(pc[t]) > 0 => ENABLED ReleaseAdvances(t))
    /\ [][\A t \in StressThreads :
             (ReleaseStepsLeft(pc[t]) > 0 /\ pc'[t] # pc[t])
             => ReleaseStepsLeft(pc'[t]) < ReleaseStepsLeft(pc[t])]_vars

\* The last of the calls was a release, and it has returned while the other
\* thread is inside the wait of a take.
C17_Witness ==
    \E t, u \in StressThreads :
        /\ pc[t] \in {"after_counting_release", "after_binary_release"}
        /\ calls = MaxCalls
        /\ pc[u] \in {"ct105", "bt36"}

----
\* Lifecycle of a counting semaphore: main creates semaphores with
\* counting_semaphore_new, keeps the handles in its pointer variables, uses
\* them and deletes them with counting_semaphore_delete
\* (main_counting_sem.c:85-97).

\* The largest value of a uint16_t.
UINT16_MAX == TwoTo16 - 1

\* How many addresses malloc has to give out.
MaxAddresses == 2

Addresses == 1..MaxAddresses

\* What the fields of a freshly allocated struct may hold before they are
\* initialised.
Indeterminate == {0, UINT16_MAX}

\* The values main passes as num_resources.
Capacities == (0..MaxCapacity) \cup {UINT16_MAX}

\* The pointer variables of main_counting_sem.c:29.
PtrVars == {"sem_console", "sem_shared_mem"}

MainThread == "main"

\* Line 63 without the test for num_resources == 0.
counting_semaphore_new_check_absent(t) ==
    /\ pc[t] = "new63"
    /\ pc' = [pc EXCEPT ![t] = "new64"]
    /\ UNCHANGED <<binary_semaphores, sems, num_prints, ra, sem_id, self, reg,
                   ret, num_prints_copy, observed, increments, takes, rest>>

\* Line 63: no resources, no semaphore.
counting_semaphore_new_check(t) ==
    /\ pc[t] = "new63"
    /\ IF new_num_resources[t] = 0
         THEN /\ result' = [result EXCEPT ![t] = NULL]
              /\ pc' = [pc EXCEPT ![t] = ra[t]]
         ELSE /\ pc' = [pc EXCEPT ![t] = "new64"]
              /\ UNCHANGED result
    /\ UNCHANGED <<binary_semaphores, sems, num_prints, ra, sem_id, self, reg,
                   ret, num_prints_copy, observed, increments, takes, calls,
                   ptrs, new_num_resources, mutex, printed>>

\* Lines 64-65: malloc either fails, and counting_semaphore_new returns null,
\* or gives out an unused address whose contents are indeterminate.
counting_semaphore_new_malloc(t) ==
    /\ pc[t] = "new64"
    /\ \/ /\ result' = [result EXCEPT ![t] = NULL]
          /\ pc' = [pc EXCEPT ![t] = ra[t]]
          /\ UNCHANGED <<sems, self>>
       \/ \E a \in Addresses \ DOMAIN sems, r, n \in Indeterminate :
             /\ sems' = [b \in DOMAIN sems \cup {a} |->
                            IF b = a
                              THEN [num_reserved_resources |-> r,
                                    num_total_resources |-> n]
                              ELSE sems[b]]
             /\ self' = [self EXCEPT ![t] = a]
             /\ pc' = [pc EXCEPT ![t] = "new66"]
             /\ UNCHANGED result
    /\ UNCHANGED <<binary_semaphores, num_prints, ra, sem_id, reg, ret,
                   num_prints_copy, observed, increments, takes, calls,
                   ptrs, new_num_resources, mutex, printed>>

\* Lines 66-68: the fields are initialised and the address is returned.
counting_semaphore_new_init(t) ==
    /\ pc[t] = "new66"
    /\ sems' = [sems EXCEPT ![self[t]] = counting_semaphore_new(new_num_resources[t])]
    /\ result' = [result EXCEPT ![t] = self[t]]
    /\ pc' = [pc EXCEPT ![t] = ra[t]]
    /\ UNCHANGED <<binary_semaphores, num_prints, ra, sem_id, self, reg, ret,
                   num_prints_copy, observed, increments, takes, calls,
                   ptrs, new_num_resources, mutex, printed>>

\* Line 79: free(*self), where self names the caller's pointer variable;
\* free(NULL) does nothing.
counting_semaphore_delete_free(t) ==
    /\ pc[t] = "del79"
    /\ sems' = [b \in DOMAIN sems \ {ptrs[self[t]]} |-> sems[b]]
    /\ pc' = [pc EXCEPT ![t] = "del80"]
    /\ UNCHANGED <<binary_semaphores, num_prints, ra, sem_id, self, reg, ret,
                   num_prints_copy, observed, increments, takes, rest>>

\* A counting_semaphore_delete that leaves the caller's pointer as it is.
counting_semaphore_delete_clear_absent(t) ==
    /\ pc[t] = "del80"
    /\ pc' = [pc EXCEPT ![t] = ra[t]]
    /\ UNCHANGED <<binary_semaphores, sems, num_prints, ra, sem_id, self, reg,
                   ret, num_prints_copy, observed, increments, takes, rest>>

\* Line 80: *self = 0.
counting_semaphore_delete_clear(t) ==
    /\ pc[t] = "del80"
    /\ ptrs' = [ptrs EXCEPT ![self[t]] = NULL]
    /\ pc' = [pc EXCEPT ![t] = ra[t]]
    /\ UNCHANGED <<binary_semaphores, sems, num_prints, ra, sem_id, self, reg,
                   ret, num_prints_copy, observed, increments, takes, calls,
                   new_num_resources, result, mutex, printed>>

\* main calls counting_semaphore_new(n) for a pointer variable that holds
\* no semaphore (main_counting_sem.c:88-89).
main_new(t) ==
    /\ pc[t] = "main"
    /\ calls < MaxCalls
    /\ \E p \in PtrVars : ptrs[p] = NULL
    /\ \E n \in Capacities :
          new_num_resources' = [new_num_resources EXCEPT ![t] = n]
    /\ ra' = [ra EXCEPT ![t] = "main_assign"]
    /\ pc' = [pc EXCEPT ![t] = "new63"]
    /\ calls' = calls + 1
    /\ UNCHANGED <<binary_semaphores, sems, num_prints, sem_id, self, reg, ret,
                   num_prints_copy, observed, increments, takes, ptrs,
                   result, mutex, printed>>

\* The returned pointer is stored in the pointer variable.
main_assign(t) ==
    /\ pc[t] = "main_assign"
    /\ \E p \in PtrVars :
          /\ ptrs[p] = NULL
          /\ ptrs' = [ptrs EXCEPT ![p] = result[t]]
    /\ pc' = [pc EXCEPT ![t] = "main"]
    /\ UNCHANGED <<binary_semaphores, sems, num_prints, ra, sem_id, self, reg,
                   ret, num_prints_copy, observed, increments, takes, calls,
                   new_num_resources, result, mutex, printed>>

\* main calls counting_semaphore_take on a semaphore it created.
main_take(t) ==
    /\ pc[t] = "main"
    /\ calls < MaxCalls
    /\ \E p \in PtrVars :
          /\ ptrs[p] # NULL
          /\ self' = [self EXCEPT ![t] = ptrs[p]]
    /\ ra' = [ra EXCEPT ![t] = "main"]
    /\ pc' = [pc EXCEPT ![t] = "ct105"]
    /\ calls' = calls + 1
    /\ UNCHANGED <<binary_semaphores, sems, num_prints, sem_id, reg, ret,
                   num_prints_copy, observed, increments, takes, ptrs,
                   new_num_resources, result, mutex, printed>>

\* main calls counting_semaphore_release on a semaphore it created.
main_release(t) ==
    /\ pc[t] = "main"
    /\ calls < MaxCalls
    /\ \E p \in PtrVars :
          /\ ptrs[p] # NULL
          /\ self' = [self EXCEPT ![t] = ptrs[p]]
    /\ ra' = [ra EXCEPT ![t] = "main"]
    /\ pc' = [pc EXCEPT ![t] = "cr114"]
    /\ calls' = calls + 1
    /\ UNCHANGED <<binary_semaphores, sems, num_prints, sem_id, reg, ret,
                   num_prints_copy, observed, increments, takes, ptrs,
                   new_num_resources, result, mutex, printed>>

\* main calls counting_semaphore_delete(&p) (main_counting_sem.c:95-96).
main_delete(t) ==
    /\ pc[t] = "main"
    /\ calls < MaxCalls
    /\ \E p \in PtrVars : self' = [self EXCEPT ![t] = p]
    /\ ra' = [ra EXCEPT ![t] = "main"]
    /\ pc' = [pc EXCEPT ![t] = "del79"]
    /\ calls' = calls + 1
    /\ UNCHANGED <<binary_semaphores, sems, num_prints, sem_id, reg, ret,
                   num_prints_copy, observed, increments, takes, ptrs,
                   new_num_resources, result, mutex, printed>>

\* A counting_semaphore_num_reserved that resets the counter it reads.
counting_semaphore_num_reserved_return_clearing(t) ==
    /\ pc[t] = "nr87"
    /\ observed' = [observed EXCEPT ![t] = counting_semaphore_num_reserved(self[t])]
    /\ sems' = [sems EXCEPT ![self[t]].num_reserved_resources = 0]
    /\ pc' = [pc EXCEPT ![t] = ra[t]]
    /\ UNCHANGED <<binary_semaphores, num_prints, ra, sem_id, self, reg,
                   ret, num_prints_copy, increments, takes, rest>>

\* counting_semaphore_num_reserved (semaphore.c:86-88): the caller receives
\* the counter.
counting_semaphore_num_reserved_return(t) ==
    /\ pc[t] = "nr87"
    /\ observed' = [observed EXCEPT ![t] = counting_semaphore_num_reserved(self[t])]
    /\ pc' = [pc EXCEPT ![t] = ra[t]]
    /\ UNCHANGED <<binary_semaphores, sems, num_prints, ra, sem_id, self, reg,
                   ret, num_prints_copy, increments, takes, rest>>

\* counting_semaphore_num_available (semaphore.c:94-96): the caller receives
\* the difference of the capacity and the counter.
counting_semaphore_num_available_return(t) ==
    /\ pc[t] = "na95"
    /\ observed' = [observed EXCEPT ![t] = counting_semaphore_num_available(self[t])]
    /\ pc' = [pc EXCEPT ![t] = ra[t]]
    /\ UNCHANGED <<binary_semaphores, sems, num_prints, ra, sem_id, self, reg,
                   ret, num_prints_copy, increments, takes, rest>>

\* main calls counting_semaphore_num_reserved on a semaphore it created.
main_num_reserved(t) ==
    /\ pc[t] = "main"
    /\ calls < MaxCalls
    /\ \E p \in PtrVars :
          /\ ptrs[p] # NULL
          /\ self' = [self EXCEPT ![t] = ptrs[p]]
    /\ ra' = [ra EXCEPT ![t] = "main"]
    /\ pc' = [pc EXCEPT ![t] = "nr87"]
    /\ calls' = calls + 1
    /\ UNCHANGED <<binary_semaphores, sems, num_prints, sem_id, reg, ret,
                   num_prints_copy, observed, increments, takes, ptrs,
                   new_num_resources, result, mutex, printed>>

\* main calls counting_semaphore_num_available on a semaphore it created.
main_num_available(t) ==
    /\ pc[t] = "main"
    /\ calls < MaxCalls
    /\ \E p \in PtrVars :
          /\ ptrs[p] # NULL
          /\ self' = [self EXCEPT ![t] = ptrs[p]]
    /\ ra' = [ra EXCEPT ![t] = "main"]
    /\ pc' = [pc EXCEPT ![t] = "na95"]
    /\ calls' = calls + 1
    /\ UNCHANGED <<binary_semaphores, sems, num_prints, sem_id, reg, ret,
                   num_prints_copy, observed, increments, takes, ptrs,
                   new_num_resources, result, mutex, printed>>

LifecycleStep(t) ==
    \/ main_new(t)
    \/ main_assign(t)
    \/ main_take(t)
    \/ main_release(t)
    \/ main_delete(t)
    \/ main_num_reserved(t)
    \/ main_num_available(t)
    \/ counting_semaphore_num_reserved_return(t)
    \/ counting_semaphore_num_available_return(t)
    \/ counting_semaphore_new_check(t)
    \/ counting_semaphore_new_malloc(t)
    \/ counting_semaphore_new_init(t)
    \/ counting_semaphore_delete_free(t)
    \/ counting_semaphore_delete_clear(t)
    \/ counting_semaphore_take_wait(t)
    \/ counting_semaphore_take_load(t)
    \/ counting_semaphore_take_store(t)
    \/ counting_semaphore_release_step(t)

\* The pointer variables are static, hence null, and nothing is allocated
\* (main_counting_sem.c:29).
LifecycleInit ==
    /\ binary_semaphores = {}
    /\ sems = <<>>
    /\ num_prints = 0
    /\ pc = [t \in {MainThread} |-> "main"]
    /\ ra = [t \in {MainThread} |-> "main"]
    /\ sem_id = [t \in {MainThread} |-> BINARY_SEMAPHORE_ID_MIN]
    /\ self = [t \in {MainThread} |-> NULL]
    /\ reg = [t \in {MainThread} |-> 0]
    /\ ret = [t \in {MainThread} |-> FALSE]
    /\ num_prints_copy = [t \in {MainThread} |-> 0]
    /\ observed = [t \in {MainThread} |-> 0]
    /\ increments = 0
    /\ takes = 0
    /\ calls = 0
    /\ ptrs = [p \in PtrVars |-> NULL]
    /\ new_num_resources = [t \in {MainThread} |-> 0]
    /\ result = [t \in {MainThread} |-> NULL]
    /\ mutex = Unlocked
    /\ printed = <<>>

LifecycleNext == LifecycleStep(MainThread)

LifecycleSpec == LifecycleInit /\ [][LifecycleNext]_vars

\* C18: counting_semaphore_new(0) returns null in its first step: it never
\* reaches malloc, allocates nothing, and the pointer variable that receives
\* the result holds no handle.
C18_ZeroCapacityRejected ==
    [][\A t \in {MainThread} :
          /\ (new_num_resources'[t] = 0) => pc'[t] \notin {"new64", "new66"}
          /\ (/\ pc[t] = "new63"
              /\ new_num_resources[t] = 0
              /\ pc'[t] # pc[t])
             => /\ pc'[t] = ra[t]
                /\ result'[t] = NULL
                /\ sems' = sems
          /\ (/\ pc[t] = "main_assign"
              /\ new_num_resources[t] = 0
              /\ pc'[t] # pc[t])
             => ptrs' = ptrs]_vars

\* counting_semaphore_new(0) has just returned null while a semaphore
\* created before is the only allocation.
C18_Witness ==
    /\ pc[MainThread] = "main_assign"
    /\ new_num_resources[MainThread] = 0
    /\ result[MainThread] = NULL
    /\ Cardinality(DOMAIN sems) = 1

\* C19: when malloc succeeds, counting_semaphore_new(capacity) returns the
\* address of a semaphore with reserved == 0 and available == capacity,
\* whatever the memory held before, for a capacity in 1..65535; when malloc
\* fails it returns null and allocates nothing, as for capacity 0.
C19_CreationState ==
    [][\A t \in {MainThread} :
          /\ (pc[t] = "new66" /\ pc'[t] # pc[t])
             => /\ pc'[t] = ra[t]
                /\ new_num_resources[t] \in 1..UINT16_MAX
                /\ result'[t] # NULL
                /\ result'[t] \in DOMAIN sems'
                /\ sems'[result'[t]].num_reserved_resources = 0
                /\ Uint16(sems'[result'[t]].num_total_resources
                            - sems'[result'[t]].num_reserved_resources)
                     = new_num_resources[t]
          /\ (pc[t] = "new64" /\ pc'[t] # pc[t] /\ sems' = sems)
             => /\ pc'[t] = ra[t]
                /\ result'[t] = NULL]_vars

\* counting_semaphore_new(65535) has just returned a semaphore with nothing
\* reserved and 65535 resources available.
C19_Witness ==
    /\ pc[MainThread] = "main_assign"
    /\ new_num_resources[MainThread] = UINT16_MAX
    /\ result[MainThread] # NULL
    /\ counting_semaphore_num_reserved(result[MainThread]) = 0
    /\ counting_semaphore_num_available(result[MainThread]) = UINT16_MAX

----
\* The mutex demo (unnamed/part_000; mutex/cpp/main.cpp is the same program
\* with std::mutex): main initialises the mutex and starts two workers, each
\* of which for ever locks the mutex, prints ++num_prints and unlocks.

\* How many times the workers of the mutex demo print altogether.
MaxRounds == 4

\* main, numbered after the workers.
MutexMain == NumWorkers + 1

\* pthread_mutex_lock without the wait for the mutex to be unlocked.
pthread_mutex_lock_absent(t) ==
    /\ pc[t] = "mx59"
    /\ increments < MaxRounds
    /\ mutex' = t
    /\ pc' = [pc EXCEPT ![t] = "mx60"]
    /\ UNCHANGED <<binary_semaphores, sems, num_prints, ra, sem_id, self, reg,
                   ret, num_prints_copy, observed, increments, takes, calls,
                   ptrs, new_num_resources, result, printed>>

\* Line 59: pthread_mutex_lock returns once the mutex is unlocked, and the
\* caller then owns it; testing and locking are one atomic step of the library.
pthread_mutex_lock(t) ==
    /\ pc[t] = "mx59"
    /\ increments < MaxRounds
    /\ mutex = Unlocked
    /\ mutex' = t
    /\ pc' = [pc EXCEPT ![t] = "mx60"]
    /\ UNCHANGED <<binary_semaphores, sems, num_prints, ra, sem_id, self, reg,
                   ret, num_prints_copy, observed, increments, takes, calls,
                   ptrs, new_num_resources, result, printed>>

\* Lines 60-61: the rule and the thread ID are printed.
mutex_run_thread_print_id(t) ==
    /\ pc[t] = "mx60"
    /\ pc' = [pc EXCEPT ![t] = "mx62r"]
    /\ UNCHANGED <<binary_semaphores, sems, num_prints, ra, sem_id, self, reg,
                   ret, num_prints_copy, observed, increments, takes, rest>>

\* Line 62, the read of ++num_prints.
mutex_run_thread_load_num_prints(t) ==
    /\ pc[t] = "mx62r"
    /\ reg' = [reg EXCEPT ![t] = num_prints]
    /\ pc' = [pc EXCEPT ![t] = "mx62w"]
    /\ UNCHANGED <<binary_semaphores, sems, num_prints, ra, sem_id, self, ret,
                   num_prints_copy, observed, increments, takes, rest>>

\* Line 62, the write of ++num_prints; the new value is what printf prints.
mutex_run_thread_store_num_prints(t) ==
    /\ pc[t] = "mx62w"
    /\ num_prints' = Uint16(reg[t] + 1)
    /\ printed' = Append(printed, Uint16(reg[t] + 1))
    /\ increments' = increments + 1
    /\ reg' = [reg EXCEPT ![t] = 0]
    /\ pc' = [pc EXCEPT ![t] = "mx63"]
    /\ UNCHANGED <<binary_semaphores, sems, ra, sem_id, self, ret,
                   num_prints_copy, observed, takes, calls, ptrs,
                   new_num_resources, result, mutex>>

\* Lines 63-64: the closing rule is printed and the worker sleeps 10 ms.
mutex_run_thread_delay(t) ==
    /\ pc[t] = "mx63"
    /\ pc' = [pc EXCEPT ![t] = "mx65"]
    /\ UNCHANGED <<binary_semaphores, sems, num_prints, ra, sem_id, self, reg,
                   ret, num_prints_copy, observed, increments, takes, rest>>

\* Line 65: pthread_mutex_unlock leaves the mutex unlocked.
pthread_mutex_unlock(t) ==
    /\ pc[t] = "mx65"
    /\ mutex' = Unlocked
    /\ pc' = [pc EXCEPT ![t] = "mx66"]
    /\ UNCHANGED <<binary_semaphores, sems, num_prints, ra, sem_id, self, reg,
                   ret, num_prints_copy, observed, increments, takes, calls,
                   ptrs, new_num_resources, result, printed>>

\* Line 66: the worker sleeps for its print interval and starts over.
mutex_run_thread_interval(t) ==
    /\ pc[t] = "mx66"
    /\ pc' = [pc EXCEPT ![t] = "mx59"]
    /\ UNCHANGED <<binary_semaphores, sems, num_prints, ra, sem_id, self, reg,
                   ret, num_prints_copy, observed, increments, takes, rest>>

\* main, line 82: pthread_mutex_init.
mutex_main_init(t) ==
    /\ t = MutexMain
    /\ pc[t] = "mm82"
    /\ mutex' = Unlocked
    /\ pc' = [pc EXCEPT ![t] = "mm83"]
    /\ UNCHANGED <<binary_semaphores, sems, num_prints, ra, sem_id, self, reg,
                   ret, num_prints_copy, observed, increments, takes, calls,
                   ptrs, new_num_resources, result, printed>>

\* main, lines 83-84: pthread_create starts the next worker; after the last
\* one main waits in pthread_join (line 86), which never returns.
mutex_main_create(t) ==
    /\ t = MutexMain
    /\ pc[t] = "mm83"
    /\ \E w \in Workers :
          /\ pc[w] = "unborn"
          /\ \A v \in Workers : v < w => pc[v] # "unborn"
          /\ pc' = [pc EXCEPT ![w] = "mx59",
                              ![t] = IF w = NumWorkers THEN "mm86" ELSE "mm83"]
    /\ UNCHANGED <<binary_semaphores, sems, num_prints, ra, sem_id, self, reg,
                   ret, num_prints_copy, observed, increments, takes, rest>>

MutexStep(t) ==
    \/ mutex_main_init(t)
    \/ mutex_main_create(t)
    \/ pthread_mutex_lock(t)
    \/ mutex_run_thread_print_id(t)
    \/ mutex_run_thread_load_num_prints(t)
    \/ mutex_run_thread_store_num_prints(t)
    \/ mutex_run_thread_delay(t)
    \/ pthread_mutex_unlock(t)
    \/ mutex_run_thread_interval(t)

\* main is about to initialise the mutex; no worker runs yet and num_prints
\* is 0 (part_000:27).
MutexInit ==
    /\ binary_semaphores = {}
    /\ sems = <<>>
    /\ num_prints = 0
    /\ pc = [t \in Workers \cup {MutexMain} |->
                IF t = MutexMain THEN "mm82" ELSE "unborn"]
    /\ ra = [t \in Workers \cup {MutexMain} |-> "none"]
    /\ sem_id = [t \in Workers \cup {MutexMain} |-> BINARY_SEMAPHORE_ID_MIN]
    /\ self = [t \in Workers \cup {MutexMain} |-> "none"]
    /\ reg = [t \in Workers \cup {MutexMain} |-> 0]
    /\ ret = [t \in Workers \cup {MutexMain} |-> FALSE]
    /\ num_prints_copy = [t \in Workers \cup {MutexMain} |-> 0]
    /\ observed = [t \in Workers \cup {MutexMain} |-> 0]
    /\ increments = 0
    /\ takes = 0
    /\ RestInit

MutexNext == \E t \in Workers \cup {MutexMain} : MutexStep(t)

MutexSpec == MutexInit /\ [][MutexNext]_vars

\* Worker t is between pthread_mutex_lock and the return of
\* pthread_mutex_unlock.
MutexHolder(t) == pc[t] \in {"mx60", "mx62r", "mx62w", "mx63", "mx65"}

\* C20: in the mutex demo at most one worker is between lock and unlock, a
\* worker that calls unlock owns the mutex, and every value of num_prints
\* printed is one more than the value printed before it, starting at 1.
C20_MutexDemo ==
    /\ Cardinality({t \in Workers : MutexHolder(t)}) <= 1
    /\ \A t \in Workers : pc[t] = "mx65" => mutex = t
    /\ \A i \in 1..Len(printed) : printed[i] = i

\* Both workers have printed, and one of them is about to unlock the mutex
\* while the other waits in pthread_mutex_lock.
C20_Witness ==
    \E t, u \in Workers :
        /\ pc[t] = "mx65"
        /\ pc[u] = "mx59"
        /\ mutex = t
        /\ Len(printed) = MaxRounds

\* C21: counting_semaphore_delete(&p) frees the semaphore p points to and
\* then sets p to null; every other semaphore keeps its address and its
\* fields, and every other pointer variable keeps its value.
C21_DeleteNullsHandle ==
    [][\A t \in {MainThread} :
          /\ (pc[t] = "del79" /\ pc'[t] # pc[t])
             => /\ pc'[t] = "del80"
                /\ DOMAIN sems' = DOMAIN sems \ {ptrs[self[t]]}
                /\ \A a \in DOMAIN sems' : sems'[a] = sems[a]
                /\ ptrs' = ptrs
          /\ (pc[t] = "del80" /\ pc'[t] # pc[t])
             => /\ pc'[t] = ra[t]
                /\ ptrs'[self[t]] = NULL
                /\ \A q \in PtrVars \ {self[t]} : ptrs'[q] = ptrs[q]
                /\ sems' = sems]_vars

\* Two semaphores were created and the one created last has been deleted:
\* its address is free again, its pointer variable is null, and the other
\* semaphore is still there.
C21_Witness ==
    /\ pc[MainThread] = "main"
    /\ calls = MaxCalls
    /\ result[MainThread] # NULL
    /\ result[MainThread] \notin DOMAIN sems
    /\ \E p, q \in PtrVars :
          /\ ptrs[p] = NULL
          /\ ptrs[q] # NULL
          /\ ptrs[q] \in DOMAIN sems

\* Thread t is inside counting_semaphore_take or counting_semaphore_release.
InTakeOrRelease(t) ==
    pc[t] \in {"ct105", "ct106r", "ct106w", "cr114", "cr115r", "cr115w"}

\* C22: counting_semaphore_num_reserved and counting_semaphore_num_available
\* return the counter and the difference of capacity and counter and change
\* no semaphore; and no step of counting_semaphore_take or
\* counting_semaphore_release changes the capacity of a semaphore.
C22_AccessorsPure ==
    [][\A t \in {MainThread} :
          /\ (pc[t] = "nr87" /\ pc'[t] # pc[t])
             => /\ sems' = sems
                /\ ptrs' = ptrs
                /\ observed'[t] = sems[self[t]].num_reserved_resources
          /\ (pc[t] = "na95" /\ pc'[t] # pc[t])
             => /\ sems' = sems
                /\ ptrs' = ptrs
                /\ observed'[t] = Uint16(sems[self[t]].num_total_resources
                                           - sems[self[t]].num_reserved_resources)
          /\ (InTakeOrRelease(t) /\ pc'[t] # pc[t])
             => /\ DOMAIN sems' = DOMAIN sems
                /\ \A a \in DOMAIN sems :
                      sems'[a].num_total_resources = sems[a].num_total_resources]_vars

\* After a take on a semaphore of capacity above 1, main has read the number
\* of available resources, one less than the capacity, and the counter is
\* still 1.
C22_Witness ==
    /\ pc[MainThread] = "main"
    /\ calls = MaxCalls
    /\ new_num_resources[MainThread] > 1
    /\ result[MainThread] \in DOMAIN sems
    /\ counting_semaphore_num_reserved(result[MainThread]) = 1
    /\ observed[MainThread] = new_num_resources[MainThread] - 1

\* C23: the binary semaphores are independent. The write that ends a
\* binary_semaphore_take(i) or a binary_semaphore_release(i) changes no bit
\* other than bit i, whatever the other threads do to the other bits.
C23_IndependentIds ==
    [][\A t \in StressThreads :
          (pc[t] \in {"bt37w", "br49w"} /\ pc'[t] # pc[t])
          => \A j \in ValidIds \ {sem_id[t]} :
                BitAnd(binary_semaphores', j) = BitAnd(binary_semaphores, j)]_vars

\* The counter of reserved resources of the semaphore of the free harness.
Reserved == counting_semaphore_num_reserved("h")

\* C24: the counter of a counting semaphore changes only in two ways. The
\* write that ends a take changes it from r to r + 1, and r is below the
\* capacity; the write that ends a release changes it from r to r - 1, or
\* leaves it 0; and no other step changes it.
C24_CountingStateMachine ==
    [][/\ \A t \in StressThreads :
             /\ (pc[t] = "ct106w" /\ pc'[t] # pc[t])
                => /\ Reserved < sems["h"].num_total_resources
                   /\ Reserved' = Reserved + 1
             /\ (pc[t] = "cr115w" /\ pc'[t] # pc[t])
                => Reserved' = IF Reserved > 0 THEN Reserved - 1 ELSE 0
       /\ Reserved' # Reserved
          => \E t \in StressThreads :
                pc[t] \in {"ct106w", "cr115w"} /\ pc'[t] # pc[t]]_vars

----
\* The whole counting demo, main included (main_counting_sem.c:85-97): main
\* creates the two semaphores, starts the two workers, joins them and then
\* deletes the semaphores. sems[p] is the semaphore the pointer variable p
\* points to; p is null exactly when p is not in DOMAIN sems.

\* main, numbered after the workers.
CountingMain == NumWorkers + 1

\* The worker main creates or joins at position p.
WorkerAt(p) == IF p \in {"cm91", "cm93"} THEN NumWorkers - 1 ELSE NumWorkers

\* The position of main after position p.
AfterMain(p) ==
    CASE p = "cm88" -> "cm89"
      [] p = "cm89" -> "cm91"
      [] p = "cm91" -> "cm92"
      [] p = "cm92" -> "cm93"
      [] p = "cm93" -> "cm94"
      [] p = "cm94" -> "cm95"
      [] p = "cm95" -> "cm96"
      [] p = "cm96" -> "cm97"

\* The positions of main from which it has started to delete the semaphores.
Deleting == {"cm95", "cm96", "cm97", "exited"}

\* The process is killed by a signal: every thread stops.
Crashed == [t \in Workers \cup {CountingMain} |-> "crashed"]

\* Lines 88-89: sem_console, then sem_shared_mem, is assigned
\* counting_semaphore_new(1), which returns null when malloc fails; the result
\* is not tested.
counting_main_new(t) ==
    /\ t = CountingMain
    /\ pc[t] \in {"cm88", "cm89"}
    /\ LET p == IF pc[t] = "cm88" THEN "sem_console" ELSE "sem_shared_mem"
       IN  \/ sems' = [b \in DOMAIN sems \cup {p} |->
                          IF b = p THEN counting_semaphore_new(DemoCapacity)
                                   ELSE sems[b]]
           \/ UNCHANGED sems
    /\ pc' = [pc EXCEPT ![t] = AfterMain(pc[t])]
    /\ UNCHANGED <<binary_semaphores, num_prints, ra, sem_id, self, reg, ret,
                   num_prints_copy, observed, increments, takes, rest>>

\* Lines 91-92: pthread_create starts worker 1, then worker 2, or fails and
\* leaves t1, or t2, unset; the result is not tested.
counting_main_create(t) ==
    /\ t = CountingMain
    /\ pc[t] \in {"cm91", "cm92"}
    /\ \/ pc' = [pc EXCEPT ![t] = AfterMain(pc[t]), ![WorkerAt(pc[t])] = "cd61"]
       \/ pc' = [pc EXCEPT ![t] = AfterMain(pc[t])]
    /\ UNCHANGED <<binary_semaphores, sems, num_prints, ra, sem_id, self, reg,
                   ret, num_prints_copy, observed, increments, takes, rest>>

\* pthread_join that does not wait for the worker.
counting_main_join_absent(t) ==
    /\ t = CountingMain
    /\ pc[t] \in {"cm93", "cm94"}
    /\ pc' = [pc EXCEPT ![t] = AfterMain(pc[t])]
    /\ UNCHANGED <<binary_semaphores, sems, num_prints, ra, sem_id, self, reg,
                   ret, num_prints_copy, observed, increments, takes, rest>>

\* Lines 93-94: pthread_join returns when the worker has returned from
\* run_thread. Joining a pthread_t that pthread_create never set is undefined:
\* the call returns an error or the process is killed.
counting_main_join(t) ==
    /\ t = CountingMain
    /\ pc[t] \in {"cm93", "cm94"}
    /\ pc[WorkerAt(pc[t])] \in {"unborn", "returned"}
    /\ \/ pc' = [pc EXCEPT ![t] = AfterMain(pc[t])]
       \/ pc[WorkerAt(pc[t])] = "unborn" /\ pc' = Crashed
    /\ UNCHANGED <<binary_semaphores, sems, num_prints, ra, sem_id, self, reg,
                   ret, num_prints_copy, observed, increments, takes, rest>>

\* Lines 95-96: counting_semaphore_delete(&sem_console), then
\* counting_semaphore_delete(&sem_shared_mem): the semaphore is freed and the
\* pointer set to null.
counting_main_delete(t) ==
    /\ t = CountingMain
    /\ pc[t] \in {"cm95", "cm96"}
    /\ LET p == IF pc[t] = "cm95" THEN "sem_console" ELSE "sem_shared_mem"
       IN  sems' = [b \in DOMAIN sems \ {p} |-> sems[b]]
    /\ pc' = [pc EXCEPT ![t] = AfterMain(pc[t])]
    /\ UNCHANGED <<binary_semaphores, num_prints, ra, sem_id, self, reg, ret,
                   num_prints_copy, observed, increments, takes, rest>>

\* Line 97: main returns and the process, with every thread in it, ends.
counting_main_return(t) ==
    /\ t = CountingMain
    /\ pc[t] = "cm97"
    /\ pc' = [u \in Workers \cup {CountingMain} |-> "exited"]
    /\ UNCHANGED <<binary_semaphores, sems, num_prints, ra, sem_id, self, reg,
                   ret, num_prints_copy, observed, increments, takes, rest>>

\* A worker enters counting_semaphore_take or counting_semaphore_release with
\* a pointer that is null or freed: the read of semaphore.c:105 or :114 is
\* undefined and kills the process.
counting_main_fault(t) ==
    /\ t \in Workers
    /\ InTakeOrRelease(t)
    /\ self[t] \notin DOMAIN sems
    /\ pc' = Crashed
    /\ UNCHANGED <<binary_semaphores, sems, num_prints, ra, sem_id, self, reg,
                   ret, num_prints_copy, observed, increments, takes, rest>>

\* A step of run_thread, on a semaphore that exists.
counting_main_worker(t) ==
    /\ t \in Workers
    /\ InTakeOrRelease(t) => self[t] \in DOMAIN sems
    /\ CountingDemoStep(t)

CountingMainStep(t) ==
    \/ counting_main_new(t)
    \/ counting_main_create(t)
    \/ counting_main_join(t)
    \/ counting_main_delete(t)
    \/ counting_main_return(t)
    \/ counting_main_fault(t)
    \/ counting_main_worker(t)

\* main is at line 88: the pointer variables are null and no worker runs.
CountingMainInit ==
    /\ binary_semaphores = {}
    /\ sems = <<>>
    /\ num_prints = 0
    /\ pc = [t \in Workers \cup {CountingMain} |->
                IF t = CountingMain THEN "cm88" ELSE "unborn"]
    /\ ra = [t \in Workers \cup {CountingMain} |-> "none"]
    /\ sem_id = [t \in Workers \cup {CountingMain} |-> BINARY_SEMAPHORE_ID_MIN]
    /\ self = [t \in Workers \cup {CountingMain} |-> "none"]
    /\ reg = [t \in Workers \cup {CountingMain} |-> 0]
    /\ ret = [t \in Workers \cup {CountingMain} |-> FALSE]
    /\ num_prints_copy = [t \in Workers \cup {CountingMain} |-> 0]
    /\ observed = [t \in Workers \cup {CountingMain} |-> 0]
    /\ increments = 0
    /\ takes = 0
    /\ RestInit

CountingMainNext == \E t \in Workers \cup {CountingMain} : CountingMainStep(t)

CountingMainSpec == CountingMainInit /\ [][CountingMainNext]_vars

\* C25: no use after destroy in the counting demo. main starts to delete the
\* semaphores only when no worker runs, and from then on no worker is inside
\* counting_semaphore_take or counting_semaphore_release.
C25_NoUseAfterDestroy ==
    pc[CountingMain] \in Deleting
    => \A w \in Workers : pc[w] \in {"unborn", "exited"} /\ ~InTakeOrRelease(w)

\* Both workers have printed and are inside a semaphore function, on
\* semaphores that exist, while main waits in the first pthread_join.
C25_Witness ==
    /\ pc[CountingMain] = "cm93"
    /\ increments = MaxPrints
    /\ \A w \in Workers : InTakeOrRelease(w) /\ self[w] \in DOMAIN sems

----
\* The two semaphore demos side by side: the program is main_binary_sem.c or
\* main_counting_sem.c (main_counting_sem.cpp has the statements of the latter).
DemosInit == BinaryDemoInit \/ CountingDemoInit

DemosNext == BinaryDemoNext \/ CountingDemoNext

DemosSpec == DemosInit /\ [][DemosNext]_vars

\* Worker t is inside binary_semaphore_release or counting_semaphore_release.
InRelease(t) == pc[t] \in {"br48", "br49r", "br49w", "cr114", "cr115r", "cr115w"}

\* Worker t is inside binary_semaphore_take or counting_semaphore_take.
InTake(t) == pc[t] \in {"bt35", "bt36", "bt37r", "bt37w", "ct105", "ct106r", "ct106w"}

\* Worker t has taken the shared-memory semaphore and its release of it has
\* not returned.
HoldsSharedMem(t) ==
    \/ pc[t] \in {"bd68r", "bd68w", "bd69", "cd63r", "cd63w", "cd64"}
    \/ InRelease(t) /\ ra[t] \in {"bd71", "cd66"}

\* Worker t has taken the console semaphore and its release of it has not
\* returned.
HoldsConsole(t) ==
    \/ pc[t] \in {"bd72", "bd77", "cd67", "cd72"}
    \/ InRelease(t) /\ ra[t] \in {"bd66", "cd61"}

\* C26: no nested holding in the demos. No worker holds the console semaphore
\* and the shared-memory semaphore together, a worker inside a take holds
\* neither, and a worker arrives at a take only by returning from the release
\* of the semaphore it held.
C26_NoNestedHolding ==
    /\ [](\A t \in Workers :
             /\ ~(HoldsSharedMem(t) /\ HoldsConsole(t))
             /\ InTake(t) => ~HoldsSharedMem(t) /\ ~HoldsConsole(t))
    /\ [][\A t \in Workers :
             (pc'[t] \in {"bd66", "bd71", "cd61", "cd66"} /\ pc'[t] # pc[t])
             => /\ InRelease(t)
                /\ ~InRelease(t)']_vars

\* One worker waits in the take of the console semaphore, having released the
\* shared-memory semaphore, while the other worker holds the console.
C26_Witness ==
    \E t, u \in Workers :
        /\ InTake(t)
        /\ ra[t] \in {"bd72", "cd67"}
        /\ HoldsConsole(u)
        /\ increments > 0

----
\* Relocking: one thread takes a binary semaphore and, without releasing it,
\* takes it again, while the other threads take and release other identifiers.
\* No thread ever calls binary_semaphore_release on the relocked identifier.

\* The thread that takes the same identifier twice.
Relocker == NumThreads

\* The identifier it takes.
RelockId == BINARY_SEMAPHORE_ID_MIN

\* The first binary_semaphore_take(RelockId).
relock_first(t) ==
    /\ t = Relocker
    /\ pc[t] = "rl_first"
    /\ sem_id' = [sem_id EXCEPT ![t] = RelockId]
    /\ ra' = [ra EXCEPT ![t] = "rl_second"]
    /\ pc' = [pc EXCEPT ![t] = "bt35"]
    /\ UNCHANGED <<binary_semaphores, sems, num_prints, self, reg, ret,
                   num_prints_copy, observed, increments, takes, rest>>

\* The second binary_semaphore_take(RelockId), with no release in between.
relock_second(t) ==
    /\ t = Relocker
    /\ pc[t] = "rl_second"
    /\ ret[t]
    /\ ra' = [ra EXCEPT ![t] = "rl_returned"]
    /\ pc' = [pc EXCEPT ![t] = "bt35"]
    /\ UNCHANGED <<binary_semaphores, sems, num_prints, sem_id, self, reg, ret,
                   num_prints_copy, observed, increments, takes, rest>>

\* Another thread calls binary_semaphore_take on another identifier.
bystander_take(t) ==
    /\ t # Relocker
    /\ pc[t] = "by_idle"
    /\ \E id \in SemIds \ {RelockId} : sem_id' = [sem_id EXCEPT ![t] = id]
    /\ ra' = [ra EXCEPT ![t] = "by_took"]
    /\ pc' = [pc EXCEPT ![t] = "bt35"]
    /\ UNCHANGED <<binary_semaphores, sems, num_prints, self, reg, ret,
                   num_prints_copy, observed, increments, takes, rest>>

\* It releases the identifier it took, if the take returned true.
bystander_release(t) ==
    /\ t # Relocker
    /\ pc[t] = "by_took"
    /\ IF ret[t]
         THEN /\ ra' = [ra EXCEPT ![t] = "by_idle"]
              /\ pc' = [pc EXCEPT ![t] = "br48"]
         ELSE /\ pc' = [pc EXCEPT ![t] = "by_idle"]
              /\ UNCHANGED ra
    /\ UNCHANGED <<binary_semaphores, sems, num_prints, sem_id, self, reg, ret,
                   num_prints_copy, observed, increments, takes, rest>>

RelockStep(t) ==
    \/ relock_first(t)
    \/ relock_second(t)
    \/ bystander_take(t)
    \/ bystander_release(t)
    \/ binary_semaphore_take_check(t)
    \/ binary_semaphore_take_wait(t)
    \/ binary_semaphore_take_load(t)
    \/ binary_semaphore_take_store(t)
    \/ binary_semaphore_release_step(t)

RelockInit ==
    /\ binary_semaphores = {}
    /\ sems = <<>>
    /\ num_prints = 0
    /\ pc = [t \in StressThreads |-> IF t = Relocker THEN "rl_first" ELSE "by_idle"]
    /\ ra = [t \in StressThreads |-> "none"]
    /\ sem_id = [t \in StressThreads |-> BINARY_SEMAPHORE_ID_MIN]
    /\ self = [t \in StressThreads |-> "none"]
    /\ reg = [t \in StressThreads |-> {}]
    /\ ret = [t \in StressThreads |-> FALSE]
    /\ num_prints_copy = [t \in StressThreads |-> 0]
    /\ observed = [t \in StressThreads |-> 0]
    /\ increments = 0
    /\ takes = 0
    /\ RestInit

RelockNext == \E t \in StressThreads : RelockStep(t)

RelockSpec == RelockInit /\ [][RelockNext]_vars

\* C27: no recursive locking. A thread that has taken a binary semaphore and
\* takes it again without releasing it does not return from the second take
\* as long as no other thread releases that semaphore.
C27_NoRecursiveLocking == pc[Relocker] # "rl_returned"

----
\* The C++ class counting_semaphore<num_resources> (semaphore.h:139-185),
\* run in step with the C semaphore: every thread t that uses the C handle h
\* has a twin that makes the same calls, in the same order, on a C++ object
\* cpp, and takes a step whenever t has taken one. The object is the record of
\* its field num_reserved_resources_ and of the template argument
\* num_resources.

Twin(t) == t + NumThreads

Original(u) == u - NumThreads

Twins == {Twin(t) : t \in StressThreads}

\* A default-constructed counting_semaphore<n> (semaphore.h:147, 184).
counting_semaphore(n) == [num_reserved_resources_ |-> 0, num_resources |-> n]

\* num_reserved_resources() (semaphore.h:155).
num_reserved_resources(o) == sems[o].num_reserved_resources_

\* num_available_resources() (semaphore.h:163), a uint16_t.
num_available_resources(o) ==
    Uint16(sems[o].num_resources - sems[o].num_reserved_resources_)

\* The position in the C++ member function that corresponds to position p of
\* the C function.
InCpp(p) ==
    CASE p = "ct105" -> "xt170"
      [] p = "ct106r" -> "xt171r"
      [] p = "ct106w" -> "xt171w"
      [] p = "cr114" -> "xr178"
      [] p = "cr115r" -> "xr179r"
      [] p = "cr115w" -> "xr179w"
      [] OTHER -> p

\* Twin u has not yet taken the step its original has taken.
Behind(u) == pc[u] # InCpp(pc[Original(u)])

AllInStep == \A u \in Twins : ~Behind(u)

\* take() that lets the caller through one resource too late.
cpp_take_wait_late(u) ==
    /\ pc[u] = "xt170"
    /\ pc' = [pc EXCEPT ![u] =
                IF sems[self[u]].num_reserved_resources_ > sems[self[u]].num_resources
                  THEN "xt170" ELSE "xt171r"]
    /\ UNCHANGED <<binary_semaphores, sems, num_prints, ra, sem_id, self, reg, ret,
                   num_prints_copy, observed, increments, takes, rest>>

\* take(), semaphore.h:170: one iteration of the loop, one read of the counter.
cpp_take_wait(u) ==
    /\ pc[u] = "xt170"
    /\ pc' = [pc EXCEPT ![u] =
                IF sems[self[u]].num_reserved_resources_ >= sems[self[u]].num_resources
                  THEN "xt170" ELSE "xt171r"]
    /\ UNCHANGED <<binary_semaphores, sems, num_prints, ra, sem_id, self, reg, ret,
                   num_prints_copy, observed, increments, takes, rest>>

\* take(), semaphore.h:171, the read of num_reserved_resources_++.
cpp_take_load(u) ==
    /\ pc[u] = "xt171r"
    /\ reg' = [reg EXCEPT ![u] = sems[self[u]].num_reserved_resources_]
    /\ pc' = [pc EXCEPT ![u] = "xt171w"]
    /\ UNCHANGED <<binary_semaphores, sems, num_prints, ra, sem_id, self, ret,
                   num_prints_copy, observed, increments, takes, rest>>

\* take(), semaphore.h:171, the write of num_reserved_resources_++.
cpp_take_store(u) ==
    /\ pc[u] = "xt171w"
    /\ sems' = [sems EXCEPT ![self[u]].num_reserved_resources_ = Uint16(reg[u] + 1)]
    /\ reg' = [reg EXCEPT ![u] = 0]
    /\ pc' = [pc EXCEPT ![u] = ra[u]]
    /\ UNCHANGED <<binary_semaphores, num_prints, ra, sem_id, self, ret,
                   num_prints_copy, observed, increments, takes, rest>>

\* release(), semaphore.h:178: the test, one read of the counter.
cpp_release_test(u) ==
    /\ pc[u] = "xr178"
    /\ pc' = [pc EXCEPT ![u] =
                IF sems[self[u]].num_reserved_resources_ > 0 THEN "xr179r" ELSE ra[u]]
    /\ UNCHANGED <<binary_semaphores, sems, num_prints, ra, sem_id, self, reg, ret,
                   num_prints_copy, observed, increments, takes, rest>>

\* release(), semaphore.h:179, the read of num_reserved_resources_--.
cpp_release_load(u) ==
    /\ pc[u] = "xr179r"
    /\ reg' = [reg EXCEPT ![u] = sems[self[u]].num_reserved_resources_]
    /\ pc' = [pc EXCEPT ![u] = "xr179w"]
    /\ UNCHANGED <<binary_semaphores, sems, num_prints, ra, sem_id, self, ret,
                   num_prints_copy, observed, increments, takes, rest>>

\* release(), semaphore.h:179, the write of num_reserved_resources_--.
cpp_release_store(u) ==
    /\ pc[u] = "xr179w"
    /\ sems' = [sems EXCEPT ![self[u]].num_reserved_resources_ = Uint16(reg[u] - 1)]
    /\ reg' = [reg EXCEPT ![u] = 0]
    /\ pc' = [pc EXCEPT ![u] = ra[u]]
    /\ UNCHANGED <<binary_semaphores, num_prints, ra, sem_id, self, ret,
                   num_prints_copy, observed, increments, takes, rest>>

\* Thread t calls counting_semaphore_take(h).
pair_take(t) ==
    /\ pc[t] = "idle"
    /\ calls < MaxCalls
    /\ ra' = [ra EXCEPT ![t] = "idle"]
    /\ pc' = [pc EXCEPT ![t] = "ct105"]
    /\ calls' = calls + 1
    /\ UNCHANGED <<binary_semaphores, sems, num_prints, sem_id, self, reg, ret,
                   num_prints_copy, observed, increments, takes, ptrs,
                   new_num_resources, result, mutex, printed>>

\* Thread t calls counting_semaphore_release(h).
pair_release(t) ==
    /\ pc[t] = "idle"
    /\ calls < MaxCalls
    /\ ra' = [ra EXCEPT ![t] = "idle"]
    /\ pc' = [pc EXCEPT ![t] = "cr114"]
    /\ calls' = calls + 1
    /\ UNCHANGED <<binary_semaphores, sems, num_prints, sem_id, self, reg, ret,
                   num_prints_copy, observed, increments, takes, ptrs,
                   new_num_resources, result, mutex, printed>>

\* Twin u makes the call its original has made: cpp.take() or cpp.release().
pair_cpp_call(u) ==
    /\ pc[u] = "idle"
    /\ pc[Original(u)] \in {"ct105", "cr114"}
    /\ ra' = [ra EXCEPT ![u] = "idle"]
    /\ pc' = [pc EXCEPT ![u] = IF pc[Original(u)] = "ct105" THEN "xt170" ELSE "xr178"]
    /\ UNCHANGED <<binary_semaphores, sems, num_prints, sem_id, self, reg, ret,
                   num_prints_copy, observed, increments, takes, rest>>

\* A step of thread t on the C semaphore, taken when every twin is in step.
PairStep(t) ==
    /\ AllInStep
    /\ \/ pair_take(t)
       \/ pair_release(t)
       \/ counting_semaphore_take_wait(t)
       \/ counting_semaphore_take_load(t)
       \/ counting_semaphore_take_store(t)
       \/ counting_semaphore_release_step(t)

\* A step of twin u inside take() or release().
CppStep(u) ==
    \/ cpp_take_wait(u)
    \/ cpp_take_load(u)
    \/ cpp_take_store(u)
    \/ cpp_release_test(u)
    \/ cpp_release_load(u)
    \/ cpp_release_store(u)

\* The step of twin u that follows a step of its original.
PairCppStep(u) ==
    /\ Behind(u)
    /\ \/ pair_cpp_call(u)
       \/ CppStep(u)

\* h = counting_semaphore_new(n) and counting_semaphore<n> cpp{}.
PairInit ==
    /\ binary_semaphores = {}
    /\ \E n \in Capacities \ {0} :
          sems = [o \in {"h", "cpp"} |->
                     IF o = "h" THEN counting_semaphore_new(n)
                                ELSE counting_semaphore(n)]
    /\ num_prints = 0
    /\ pc = [t \in StressThreads \cup Twins |-> "idle"]
    /\ ra = [t \in StressThreads \cup Twins |-> "idle"]
    /\ sem_id = [t \in StressThreads \cup Twins |-> BINARY_SEMAPHORE_ID_MIN]
    /\ self = [t \in StressThreads \cup Twins |->
                  IF t \in StressThreads THEN "h" ELSE "cpp"]
    /\ reg = [t \in StressThreads \cup Twins |-> 0]
    /\ ret = [t \in StressThreads \cup Twins |-> FALSE]
    /\ num_prints_copy = [t \in StressThreads \cup Twins |-> 0]
    /\ observed = [t \in StressThreads \cup Twins |-> 0]
    /\ increments = 0
    /\ takes = 0
    /\ RestInit

PairNext == \E t \in StressThreads : PairStep(t) \/ PairCppStep(Twin(t))

PairSpec == PairInit /\ [][PairNext]_vars

\* Twin u can take a step that changes its state.
CppAdvances(u) == <<CppStep(u)>>_vars

\* Thread t can take a step of counting_semaphore_take or
\* counting_semaphore_release that changes its state.
CAdvances(t) ==
    <<\/ counting_semaphore_take_wait(t)
      \/ counting_semaphore_take_load(t)
      \/ counting_semaphore_take_store(t)
      \/ counting_semaphore_release_step(t)>>_vars

\* C28: the C++ class and the C semaphore are the same state machine. When
\* the two have been given the same calls and steps, num_reserved and
\* num_available of the C handle equal num_reserved_resources() and
\* num_available_resources() of the C++ object, every thread and its twin
\* hold the same value read and are able to go on, or not, alike; a twin
\* that is one step behind can take that step, and the step brings it back
\* in step.
C28_SameStateMachine ==
    /\ [](/\ AllInStep
             => /\ counting_semaphore_num_reserved("h") = num_reserved_resources("cpp")
                /\ counting_semaphore_num_available("h") = num_available_resources("cpp")
                /\ \A t \in StressThreads :
                      /\ reg[t] = reg[Twin(t)]
                      /\ ENABLED CAdvances(t) <=> ENABLED CppAdvances(Twin(t))
          /\ \A u \in Twins :
                (Behind(u) /\ pc[u] # "idle") => ENABLED CppAdvances(u))
    /\ [][\A u \in Twins : Behind(u) => ~Behind(u)']_vars

\* After racing takes and releases both counters have wrapped to 65535, and
\* both report the same number of available resources.
C28_Witness ==
    /\ AllInStep
    /\ calls = MaxCalls
    /\ num_reserved_resources("cpp") = UINT16_MAX
    /\ counting_semaphore_num_reserved("h") = UINT16_MAX
    /\ \A t \in StressThreads \cup Twins : pc[t] = "idle"

====
